---------------------------- MODULE Spec2Model ----------------------------
(***************************************************************************)
(* A model of the detector-response pipeline and of the sampler adapters   *)
(* of DD_DM_targets.                                                       *)
(*                                                                         *)
(*   src/dddm/recoil_rates/detector_spectrum.py   threshold cut, smearing  *)
(*   src/DirectDmTargets/detector.py              the older DetectorSpectrum*)
(*   src/DirectDmTargets/nestle.py                NestleStatModel          *)
(*   src/dddm/samplers/emcee.py                   MCMCStatModel            *)
(*                                                                         *)
(* Floating point numbers are modelled as exact rationals <<n, d>> (d > 0, *)
(* in lowest terms); rounding is modelled where it is said so.             *)
(***************************************************************************)
EXTENDS Integers, Sequences, FiniteSets, TLC

VARIABLES
    \* ---- threshold cut (above_threshold) ----
    thr_impl,       \* which DetectorSpectrum class: "dddm" or "legacy"
    e_bin_edges,    \* sequence of <<left, right>> bin edges
    e_thr,          \* the energy threshold
    rates_in,       \* the rate array as first handed to above_threshold
    rates,          \* the rate array (mutated in place by above_threshold)
    thr_hist,       \* the arrays returned by the successive applications
    thr_error,      \* "none", or the exception above_threshold raised
    \* ---- DetectorSpectrum instance (binning configuration) ----
    det_impl,       \* which DetectorSpectrum class: "dddm" or "legacy"
    n_bins,         \* self.n_bins
    n_bins_result,  \* self.n_bins_result (0: not set yet)
    add_background, \* self.add_background
    n_bins_built,   \* n_bins as it was after construction
    n_centers,      \* len(bin_centers) handed to _calculate_counts
    out_lens,       \* number of bins of the result of each call so far
    \* ---- smear_signal ----
    smear_impl,     \* "dddm" or "legacy"
    smear_rate,     \* argument rate
    smear_sigma,    \* argument sigma
    smear_width,    \* argument bin_width (an array for dddm, a scalar for legacy)
    smear_out,      \* what the last call returned (<<>>: not called yet)
    warnings_log,   \* the warnings emitted so far
    \* ---- sampler adapters (NestleStatModel, MCMCStatModel) ----
    stats,          \* the statistical model instance (its attributes)
    engine_log,     \* the invocations of nestle.sample / run_mcmc so far
    engine_calls,   \* how many there were
    last_call,      \* the last method called on stats and how it ended
    last_eval,      \* the last likelihood evaluation (<<>>: none yet)
    \* ---- DetectorSpectrum.get_data (older class) ----
    events,         \* what get_events() returns, one expected count per bin
    poisson,        \* argument poisson of get_data
    poisson_means,  \* the arrays np.random.poisson was called with so far
    data_out,       \* what get_data did (<<>>: not called yet)
    \* ---- NestleStatModel.get_summary on a finished run ----
    result_samples, \* self.result.samples (one parameter)
    result_weights, \* self.result.weights
    rand_draws,     \* what np.random.rand(len(nweights)) returns
    summary_out,    \* what get_summary computed (<<>>: not called yet)
    \* ---- NestleStatModel.log_prior_transform_nestle ----
    prior,          \* self.config['prior'][x_name]
    x_in,           \* argument x, a point of the unit interval
    prior_out,      \* what the call did (<<>>: not called yet)
    \* ---- the steps of the detector pipeline ----
    pipe_impl,      \* which DetectorSpectrum class: "dddm" or "legacy"
    pipe_bg,        \* whether a background is added
    pipe_rates,     \* what spectrum_simple returns
    pipe_steps,     \* the steps run, each with the steps its input went through
    \* ---- DetectorSpectrum.chuck_integration ----
    fine_rates,     \* argument rates
    fine_energies,  \* argument energies (fine bin centres)
    result_bins,    \* argument bins
    rebin_out,      \* what the call returned (<<>>: not called yet)
    \* ---- MCMCStatModel._set_pos ----
    set_pos_in,     \* the instance and the random draws (<<>>: none)
    set_pos_out,    \* self.pos after the call (<<>>: not called yet)
    \* ---- convert_dic_to_savable ----
    sav_config,     \* argument config
    sav_out,        \* what the call returned (<<>>: not called yet)
    \* ---- load_nestle_samples / load_chain_emcee ----
    load_fs,        \* the file system: the result folder and what it holds
    load_args,      \* the function called and its arguments
    load_out,       \* what the call did (<<>>: not called yet)
    \* ---- run_dddm_multinest.py run as parallel processes ----
    drv_args,       \* the command line and whether mpi4py can be imported
    drv_procs,      \* per process: where it is in the script, rank, did_run
    drv_saved,      \* the processes that called save_results, with the directory
    \* ---- the experiment table and the detectors built from it ----
    experiment,     \* the module-level dict experiment
    build_pc,       \* how far the module-level loops have run
    detectors       \* the DetectorSpectrum instances built so far

thr_vars == <<thr_impl, e_bin_edges, e_thr, rates_in, rates, thr_hist, thr_error>>
det_vars == <<det_impl, n_bins, n_bins_result, add_background, n_bins_built,
              n_centers, out_lens>>
smear_vars == <<smear_impl, smear_rate, smear_sigma, smear_width, smear_out,
                warnings_log>>

smp_vars == <<stats, engine_log, engine_calls, last_call>>
lik_vars == <<last_eval>>

data_vars == <<events, poisson, poisson_means, data_out>>
sum_vars == <<result_samples, result_weights, rand_draws, summary_out>>
prior_vars == <<prior, x_in, prior_out>>
pipe_vars == <<pipe_impl, pipe_bg, pipe_rates, pipe_steps>>
rebin_vars == <<fine_rates, fine_energies, result_bins, rebin_out>>

pos_vars == <<set_pos_in, set_pos_out>>
sav_vars == <<sav_config, sav_out>>
load_vars == <<load_fs, load_args, load_out>>
drv_vars == <<drv_args, drv_procs, drv_saved>>
tab_vars == <<experiment, build_pc, detectors>>
more_vars == <<pos_vars, sav_vars, load_vars, drv_vars, tab_vars>>

vars == <<thr_vars, det_vars, smear_vars, smp_vars, lik_vars,
          data_vars, sum_vars, prior_vars, pipe_vars, rebin_vars, more_vars>>

-----------------------------------------------------------------------------
(* Bounds of the model.                                                    *)
MaxBins == 3        \* at most this many energy bins
MaxEdge == 4        \* bin edges lie on the grid 0..MaxEdge
MaxApply == 2       \* above_threshold is applied at most this often
MaxNBins == 10      \* a DetectorSpectrum is built with 1..MaxNBins bins
MaxCalls == 3       \* compute_detected_spectrum is called at most this often
MaxSmearBins == 2   \* smear_signal is given at most this many bins
MaxSigma == 3       \* resolutions are 1..MaxSigma
MaxWidth == 2       \* bin widths are 1..MaxWidth
MaxParams == 2      \* parameter lists handed in have at most this many names
MaxDim == 3         \* candidate vectors have at most this many coordinates
MaxEngineCalls == 2 \* the sampler engine is invoked at most this often
MaxDataBins == 2    \* get_events() returns at most this many bins
MaxCount == 2       \* expected counts per bin are -1..MaxCount
MaxDraw == 2        \* a Poisson draw is one of 0..MaxDraw
MaxSamples == 2     \* a finished run has 2..MaxSamples samples
MaxSampleValue == 2 \* sample values are 0..MaxSampleValue
MaxWeight == 2      \* sample weights are 1..MaxWeight
MaxPrior == 8       \* bounds of a flat prior are floats in -MaxPrior..MaxPrior
MaxStd == 2         \* standard deviations of a Gaussian prior are 1..MaxStd
MaxRange == 4       \* bounds of a Gaussian prior are in -MaxRange..MaxRange
MaxPipeBins == 3    \* the pipeline is run on at most this many bins
MaxHalfWidth == 1   \* fine bins are 2, 4, ..., 2 * MaxHalfWidth wide
MaxFactor == 2      \* an output bin spans 1..MaxFactor fine bins
MaxCoarse == 2      \* there are 1..MaxCoarse output bins
MaxWalkers == 2     \* an MCMC instance has 1..MaxWalkers walkers
MaxAnyBins == 2     \* an arbitrary binning has 1..MaxAnyBins bins
MaxAnyEdge == 2     \* with edges in 0..MaxAnyEdge
MaxKeys == 2        \* a config has keys among 1..MaxKeys
MaxDepth == 2       \* with dicts nested up to MaxDepth deep below a key
MaxConvert == 2     \* convert_dic_to_savable is applied up to MaxConvert times
MaxFiles == 2       \* the result folder holds up to MaxFiles names
MaxProcs == 2       \* the driver is started as 1..MaxProcs processes
MaxDetectors == 2   \* up to MaxDetectors detectors are built from the table

RateValues == {0, 1, 2}     \* input rates per bin

-----------------------------------------------------------------------------
(* Exact rational arithmetic standing in for Python floats.                *)
RECURSIVE GCD(_, _)
GCD(a, b) == IF b = 0 THEN a ELSE GCD(b, a % b)

Abs(x) == IF x < 0 THEN -x ELSE x

\* the rational n/d in lowest terms with a positive denominator (d # 0)
Rat(n, d) ==
    LET g == GCD(Abs(n), Abs(d))
        s == IF d < 0 THEN -1 ELSE 1
    IN  <<(s * n) \div g, (s * d) \div g>>

Zero == <<0, 1>>
FromInt(k) == <<k, 1>>
RatMul(x, y) == Rat(x[1] * y[1], x[2] * y[2])
RatLess(x, y) == x[1] * y[2] < y[1] * x[2]

RatAdd(x, y) == Rat(x[1] * y[2] + y[1] * x[2], x[2] * y[2])
RatSub(x, y) == Rat(x[1] * y[2] - y[1] * x[2], x[2] * y[2])

-----------------------------------------------------------------------------
(* DetectorSpectrum.above_threshold, dddm version.                         *)
(* threshold_bin is the body of the loop for one bin: what the loop does   *)
(* with the bin whose rate is r and whose edges are left_edge, right_edge. *)

\* faulty variant: the scan already stops at a bin the threshold lies inside
threshold_bin_break_early(r, left_edge, right_edge, thr) ==
    IF right_edge > thr THEN [act |-> "break", value |-> r]
    ELSE [act |-> "set", value |-> Zero]

\* faulty variant: the fraction of the bin below the threshold
threshold_bin_fraction_below(r, left_edge, right_edge, thr) ==
    IF left_edge >= thr THEN [act |-> "break", value |-> r]
    ELSE IF right_edge <= thr THEN [act |-> "set", value |-> Zero]
    ELSE IF left_edge <= thr /\ thr <= right_edge
      THEN [act |-> "set",
            value |-> RatMul(r, Rat(thr - left_edge, right_edge - left_edge))]
    ELSE [act |-> "raise", value |-> r]

\* faulty variant: a bin fully below the threshold is skipped without being zeroed
threshold_bin_no_zero(r, left_edge, right_edge, thr) ==
    IF left_edge >= thr THEN [act |-> "break", value |-> r]
    ELSE IF right_edge <= thr THEN [act |-> "set", value |-> r]
    ELSE IF left_edge <= thr /\ thr <= right_edge
      THEN [act |-> "set",
            value |-> RatMul(r, Rat(right_edge - thr, right_edge - left_edge))]
    ELSE [act |-> "raise", value |-> r]

\* faulty variant: a bin fully below the threshold is halved instead of zeroed
threshold_bin_halve(r, left_edge, right_edge, thr) ==
    IF left_edge >= thr THEN [act |-> "break", value |-> r]
    ELSE IF right_edge <= thr
      THEN [act |-> "set", value |-> RatMul(r, Rat(1, 2))]
    ELSE IF left_edge <= thr /\ thr <= right_edge
      THEN [act |-> "set",
            value |-> RatMul(r, Rat(right_edge - thr, right_edge - left_edge))]
    ELSE [act |-> "raise", value |-> r]

\* faulty variant: only a bin with left < right counts as fully below
threshold_bin_ordered_only(r, left_edge, right_edge, thr) ==
    IF left_edge >= thr THEN [act |-> "break", value |-> r]
    ELSE IF right_edge <= thr /\ left_edge < right_edge
      THEN [act |-> "set", value |-> Zero]
    ELSE IF left_edge <= thr /\ thr <= right_edge
      THEN [act |-> "set",
            value |-> RatMul(r, Rat(right_edge - thr, right_edge - left_edge))]
    ELSE [act |-> "raise", value |-> r]

threshold_bin(r, left_edge, right_edge, thr) ==
    IF left_edge >= thr
      THEN [act |-> "break", value |-> r]
    ELSE IF right_edge <= thr
      THEN [act |-> "set", value |-> Zero]
    ELSE IF left_edge <= thr /\ thr <= right_edge
      THEN LET fraction_above ==
                   Rat(right_edge - thr, right_edge - left_edge)
           IN  [act |-> "set", value |-> RatMul(r, fraction_above)]
    ELSE [act |-> "raise", value |-> r]

\* The loop, from bin r_i on.  The array is changed in place, so what was
\* written before a break or a raise stays written.
RECURSIVE above_threshold_from(_, _, _, _)
above_threshold_from(rs, edges, thr, r_i) ==
    IF r_i > Len(rs) THEN [rates |-> rs, error |-> "none"]
    ELSE LET step == threshold_bin(rs[r_i], edges[r_i][1], edges[r_i][2], thr)
         IN  CASE step.act = "break" -> [rates |-> rs, error |-> "none"]
               [] step.act = "set" ->
                    above_threshold_from([rs EXCEPT ![r_i] = step.value],
                                         edges, thr, r_i + 1)
               [] step.act = "raise" -> [rates |-> rs, error |-> "ValueError"]

above_threshold(rs, edges, thr) == above_threshold_from(rs, edges, thr, 1)

\* bin centres, the `energies` of the older class
BinCenters(edges) ==
    [i \in 1..Len(edges) |-> Rat(edges[i][1] + edges[i][2], 2)]

\* DetectorSpectrum.above_threshold, older version: a hard cut on the centres
above_threshold_legacy(rs, energies, thr) ==
    [i \in 1..Len(rs) |->
        IF RatLess(energies[i], FromInt(thr)) THEN Zero ELSE rs[i]]

-----------------------------------------------------------------------------
(* Inputs of the threshold cut: bins in increasing energy that do not      *)
(* overlap (gaps are allowed), each with left < right.                     *)
Edge == 0..MaxEdge
BinPairs == {p \in Edge \X Edge : p[1] < p[2]}

RECURSIVE Binnings(_)
Binnings(n) ==
    IF n = 0 THEN {<<>>}
    ELSE {Append(bp[1], bp[2]) :
            bp \in {x \in Binnings(n - 1) \X BinPairs :
                      \/ Len(x[1]) = 0
                      \/ x[1][Len(x[1])][2] <= x[2][1]}}

RateArrays(n) == [1..n -> {FromInt(r) : r \in RateValues}]

ThrInit ==
    /\ thr_impl \in {"dddm", "legacy"}
    /\ \E n \in 1..MaxBins :
          /\ e_bin_edges \in Binnings(n)
          /\ rates_in \in RateArrays(n)
    /\ e_thr \in 0..(MaxEdge + 1)
    /\ rates = rates_in
    /\ thr_hist = <<>>
    /\ thr_error = "none"

\* any numbers as edges: bins may be empty, reversed, overlapping, unsorted
AnyEdge == 0..MaxAnyEdge
AnyBinnings(n) == [1..n -> AnyEdge \X AnyEdge]

ThrInitAny ==
    /\ thr_impl \in {"dddm", "legacy"}
    /\ \E n \in 1..MaxAnyBins :
          /\ e_bin_edges \in AnyBinnings(n)
          /\ rates_in \in [1..n -> {FromInt(1), FromInt(2)}]
    /\ e_thr \in 0..(MaxAnyEdge + 1)
    /\ rates = rates_in
    /\ thr_hist = <<>>
    /\ thr_error = "none"

\* the threshold component when another component is under study
ThrIdle ==
    /\ thr_impl = "dddm"
    /\ e_bin_edges = <<>>
    /\ e_thr = 0
    /\ rates_in = <<>>
    /\ rates = <<>>
    /\ thr_hist = <<>>
    /\ thr_error = "none"

\* rates = self.above_threshold(rates, bin_edges, self.energy_threshold_kev)
AboveThreshold ==
    /\ thr_impl = "dddm"
    /\ thr_error = "none"
    /\ Len(thr_hist) < MaxApply
    /\ LET out == above_threshold(rates, e_bin_edges, e_thr)
       IN  /\ rates' = out.rates
           /\ thr_error' = out.error
           /\ thr_hist' = IF out.error = "none"
                            THEN Append(thr_hist, out.rates) ELSE thr_hist
    /\ UNCHANGED <<thr_impl, e_bin_edges, e_thr, rates_in>>

\* rates = self.above_threshold(rates, energies)
AboveThresholdLegacy ==
    /\ thr_impl = "legacy"
    /\ Len(thr_hist) < MaxApply
    /\ rates' = above_threshold_legacy(rates, BinCenters(e_bin_edges), e_thr)
    /\ thr_hist' = Append(thr_hist, rates')
    /\ UNCHANGED <<thr_impl, e_bin_edges, e_thr, rates_in, thr_error>>

ThrNext ==
    \/ AboveThreshold /\ UNCHANGED <<det_vars, smear_vars, smp_vars, lik_vars, data_vars, sum_vars,
                       prior_vars, pipe_vars, rebin_vars, more_vars>>
    \/ AboveThresholdLegacy /\ UNCHANGED <<det_vars, smear_vars, smp_vars, lik_vars, data_vars, sum_vars,
                       prior_vars, pipe_vars, rebin_vars, more_vars>>

-----------------------------------------------------------------------------
(* The binning configuration of a DetectorSpectrum over repeated calls.    *)

rebin_factor == 10

\* get_bins(E_min, E_max, n): n pairs of edges; only the number of pairs
\* matters here
get_bins_len(n) == n

\* chuck_integration: res = np.zeros(len(bins)), one entry per output bin
chuck_integration_len(events_len, bins_len) == bins_len

DetInit ==
    /\ det_impl \in {"dddm", "legacy"}
    /\ n_bins \in 1..MaxNBins
    /\ n_bins_result = 0
    /\ add_background \in BOOLEAN
    /\ n_bins_built = n_bins
    /\ n_centers \in IF det_impl = "dddm" THEN 1..MaxNBins ELSE {0}
    /\ out_lens = <<>>

DetIdle ==
    /\ det_impl = "dddm"
    /\ n_bins = 1
    /\ n_bins_result = 0
    /\ add_background = FALSE
    /\ n_bins_built = 1
    /\ n_centers = 0
    /\ out_lens = <<>>

\* DirectDmTargets DetectorSpectrum.compute_detected_spectrum(): the spectrum
\* is computed on self.n_bins (already multiplied) fine bins and re-binned
\* onto get_bins(E_min, E_max, self.n_bins_result)
compute_detected_spectrum ==
    /\ det_impl = "legacy"
    /\ Len(out_lens) < MaxCalls
    /\ n_bins_result' = n_bins
    /\ n_bins' = n_bins * rebin_factor
    /\ LET fine_len == n_bins'
           result_bins_len == get_bins_len(n_bins_result')
       IN  out_lens' = Append(out_lens,
                              chuck_integration_len(fine_len, result_bins_len))
    /\ UNCHANGED <<det_impl, add_background, n_bins_built, n_centers>>

\* dddm DetectorSpectrum._calculate_counts(..., bin_centers, bin_width,
\* bin_edges): every step maps an array of len(bin_centers) entries to one of
\* the same length and no attribute of self is assigned
_calculate_counts ==
    /\ det_impl = "dddm"
    /\ Len(out_lens) < MaxCalls
    /\ out_lens' = Append(out_lens, n_centers)
    /\ UNCHANGED <<det_impl, n_bins, n_bins_result, add_background,
                   n_bins_built, n_centers>>

DetNext ==
    \/ compute_detected_spectrum /\ UNCHANGED <<thr_vars, smear_vars, smp_vars, lik_vars, data_vars, sum_vars,
                       prior_vars, pipe_vars, rebin_vars, more_vars>>
    \/ _calculate_counts /\ UNCHANGED <<thr_vars, smear_vars, smp_vars, lik_vars, data_vars, sum_vars,
                       prior_vars, pipe_vars, rebin_vars, more_vars>>

-----------------------------------------------------------------------------
(* smear_signal.  The Gaussian sum of _smear_signal is kept symbolic: entry *)
(* i of the result is the sequence of its summands, summand j standing for  *)
(*   bin_width[j] * rate[j] * pdf(energy[i] - energy[j]; sigma[j]).         *)

smear_term(w, r, sig, d) == [width |-> w, rate |-> r, sigma |-> sig, dist |-> d]

\* _smear_signal(rate, energy, sigma, bin_width, result_buffer)
_smear_signal(rate, energy, sigma, bin_width) ==
    [i \in 1..Len(energy) |->
        [j \in 1..Len(rate) |->
            smear_term(bin_width[j], rate[j], sigma[j],
                       RatSub(energy[i], energy[j]))]]

\* np.any(sigma < bin_width), element by element
any_sigma_below_width(sigma, bin_width) ==
    \E j \in 1..Len(sigma) : sigma[j] < bin_width[j]

\* dddm smear_signal(rate, energy, sigma, bin_width): what is returned and
\* the warnings emitted
smear_signal(rate, energy, sigma, bin_width) ==
    IF any_sigma_below_width(sigma, bin_width)
      THEN [convolved |-> FALSE, rate |-> rate,
            warned |-> <<"UserWarning">>]
      ELSE [convolved |-> TRUE,
            rate |-> _smear_signal(rate, energy, sigma, bin_width),
            warned |-> <<>>]

\* DirectDmTargets smear_signal(rate, energy, sigma, bin_width), bin_width a
\* scalar: the double loop runs whatever sigma is
smear_signal_legacy(rate, energy, sigma, bin_width) ==
    [convolved |-> TRUE,
     rate |-> [i \in 1..Len(energy) |->
                 [j \in 1..Len(rate) |->
                     smear_term(bin_width, rate[j], sigma[j],
                                RatSub(energy[i], energy[j]))]],
     warned |-> <<>>]

\* centres of adjacent bins of the given widths, the first starting at 0
RECURSIVE EdgeAfter(_, _)
EdgeAfter(widths, i) == IF i = 0 THEN 0 ELSE EdgeAfter(widths, i - 1) + widths[i]

CentersOf(widths) ==
    [i \in 1..Len(widths) |-> Rat(2 * EdgeAfter(widths, i) - widths[i], 2)]

SmearInit ==
    /\ smear_impl \in {"dddm", "legacy"}
    /\ \E n \in 1..MaxSmearBins :
          /\ smear_rate \in [1..n -> RateValues]
          /\ smear_sigma \in [1..n -> 1..MaxSigma]
          /\ smear_width \in
                IF smear_impl = "dddm"
                  THEN [1..n -> 1..MaxWidth]
                  ELSE {[i \in 1..n |-> w] : w \in 1..MaxWidth}
    /\ smear_out = <<>>
    /\ warnings_log = <<>>

SmearIdle ==
    /\ smear_impl = "dddm"
    /\ smear_rate = <<>>
    /\ smear_sigma = <<>>
    /\ smear_width = <<>>
    /\ smear_out = <<>>
    /\ warnings_log = <<>>

\* rates = np.array(smear_signal(rates, bin_centers, sigma, bin_width))
SmearSignal ==
    /\ smear_impl = "dddm"
    /\ smear_out = <<>>
    /\ LET out == smear_signal(smear_rate, CentersOf(smear_width),
                               smear_sigma, smear_width)
       IN  /\ smear_out' = <<out>>
           /\ warnings_log' = warnings_log \o out.warned
    /\ UNCHANGED <<smear_impl, smear_rate, smear_sigma, smear_width>>

\* events = np.array(smear_signal(rates, energies, sigma, bin_width))
SmearSignalLegacy ==
    /\ smear_impl = "legacy"
    /\ smear_out = <<>>
    /\ LET out == smear_signal_legacy(smear_rate, CentersOf(smear_width),
                                      smear_sigma, smear_width[1])
       IN  /\ smear_out' = <<out>>
           /\ warnings_log' = warnings_log \o out.warned
    /\ UNCHANGED <<smear_impl, smear_rate, smear_sigma, smear_width>>

SmearNext ==
    \/ SmearSignal /\ UNCHANGED <<thr_vars, det_vars, smp_vars, lik_vars, data_vars, sum_vars,
                       prior_vars, pipe_vars, rebin_vars, more_vars>>
    \/ SmearSignalLegacy /\ UNCHANGED <<thr_vars, det_vars, smp_vars, lik_vars, data_vars, sum_vars,
                       prior_vars, pipe_vars, rebin_vars, more_vars>>

-----------------------------------------------------------------------------
(* The sampler adapters.  An exception is a record: its type and the values *)
(* its message shows, each with the name of the expression interpolated.    *)

NoError == [type |-> "none", shows |-> <<>>]
Shown(name, value) == [name |-> name, value |-> value]
Raised(type, shows) == [type |-> type, shows |-> shows]

Min(a, b) == IF a < b THEN a ELSE b

\* seq[:n] for n >= 0
Slice(seq, n) == SubSeq(seq, 1, Min(n, Len(seq)))

\* get_param_list(): the canonical parameter ordering
known_parameters ==
    <<"log_mass", "log_cross_section", "v_0", "v_esc", "density">>

KnownNames == {known_parameters[i] : i \in 1..Len(known_parameters)}

\* a float that may be NaN
IsNaN(ll) == ll.nan
LLValues == {[nan |-> TRUE, val |-> 0],
             [nan |-> FALSE, val |-> 0],
             [nan |-> FALSE, val |-> -1]}
ThetaValues == {0, 1, 2}
Thetas(ndim) == [1..ndim -> ThetaValues]
\* the candidate a run starts from
FirstTheta(ndim) == [i \in 1..ndim |-> 0]

\* parameter lists a caller may hand in: names, one of them unknown
ParamNames == {"log_mass", "log_cross_section", "mass"}
RECURSIVE ListsUpTo(_)
ListsUpTo(n) ==
    IF n = 0 THEN {<<>>}
    ELSE ListsUpTo(n - 1) \cup
         {Append(l, x) : l \in {k \in ListsUpTo(n - 1) : Len(k) = n - 1},
                         x \in ParamNames}
ParamLists == ListsUpTo(MaxParams)

\* the configurations tried on an instance that is then run
ConfigLists == {<<>>, <<"log_mass">>, <<"log_cross_section">>,
                <<"log_mass", "log_cross_section">>}

\* what a method leaves behind: the instance, the exception that left it
\* (NoError: it returned) and the engine invocations it made
Outcome(st, error, engine) == [st |-> st, error |-> error, engine |-> engine]
Returned(st) == Outcome(st, NoError, <<>>)

\* ---- NestleStatModel ----

\* NestleStatModel.__init__
NestleStatModel ==
    [kind |-> "nestle",
     fit_parameters |-> <<"log_mass", "log_cross_section">>,
     did_run |-> FALSE,       \* self.log['did_run']
     saved_in |-> "None",     \* self.log['saved_in']
     result |-> <<>>,         \* self.result: <<>> is False, else <<output>>
     sampler |-> FALSE,       \* (MCMC only)
     pos |-> FALSE]           \* (MCMC only)

\* faulty variant: the order of the parameters is not checked
set_fit_parameters_any_order(st, params) ==
    IF ~params.is_list
      THEN Outcome(st, Raised("TypeError", <<>>), <<>>)
    ELSE IF \E i \in 1..Len(params.items) : params.items[i] \notin KnownNames
      THEN Outcome(st, Raised("NotImplementedError", <<>>), <<>>)
    ELSE Returned([st EXCEPT !.fit_parameters = params.items])

\* NestleStatModel.set_fit_parameters(params); params is [is_list, items]
set_fit_parameters(st, params) ==
    IF ~params.is_list
      THEN Outcome(st, Raised("TypeError", <<>>), <<>>)
    ELSE IF \E i \in 1..Len(params.items) : params.items[i] \notin KnownNames
      THEN Outcome(st,
                   Raised("NotImplementedError",
                          <<Shown("param",
                                  params.items[CHOOSE i \in 1..Len(params.items) :
                                      /\ params.items[i] \notin KnownNames
                                      /\ \A j \in 1..(i - 1) :
                                            params.items[j] \in KnownNames]),
                            Shown("known_parameters", known_parameters)>>),
                   <<>>)
    ELSE IF ~(params.items = Slice(known_parameters, Len(params.items)))
      THEN Outcome(st,
                   Raised("NameError",
                          <<Shown("known_parameters[:len(params)]",
                                  Slice(known_parameters, Len(params.items))),
                            Shown("params", params.items)>>),
                   <<>>)
    ELSE Returned([st EXCEPT !.fit_parameters = params.items])

\* log_likelihood(self.benchmark_values, evaluated_rate) is computed outside
\* these files: its value ll is an input here.
\* NestleStatModel.log_probability_nestle(parameter_vals, parameter_names)
log_probability_nestle(parameter_vals, parameter_names, ll) ==
    IF IsNaN(ll)
      THEN [error |-> Raised("ValueError", <<Shown("ll", ll)>>), value |-> ll]
      ELSE [error |-> NoError, value |-> ll]

\* faulty variant: the names are counted from the second known parameter
likelihood_names_shifted(theta) ==
    SubSeq(known_parameters, 2, Min(Len(theta) + 1, Len(known_parameters)))

\* the names _log_probability_nestle pairs with theta:
\* self.known_parameters[:ndim]
likelihood_names(theta) == Slice(known_parameters, Len(theta))

\* the names _log_prior_transform_nestle pairs with theta:
\* self.known_parameters[i] for i, val in enumerate(theta)
prior_transform_names(theta) == [i \in 1..Len(theta) |-> known_parameters[i]]

\* NestleStatModel._log_probability_nestle(theta)
_log_probability_nestle(theta, ll) ==
    log_probability_nestle(theta, likelihood_names(theta), ll)

\* one engine invocation, as recorded in engine_log; call is the method the
\* caller invoked and the flags at its entry; names are the lists of names
\* the callbacks paired with the candidate vector
Invocation(call, fit_parameters, raised, names) ==
    [entry |-> call.name, did_run |-> call.did_run, failed |-> call.failed,
     in_order |-> fit_parameters = Slice(known_parameters, Len(fit_parameters)),
     paired |-> \A i \in 1..Len(names) : names[i] = fit_parameters,
     raised |-> raised]

\* faulty variant: no assertion before the fit
fit_parameters_asserted_unchecked(fit_parameters) == TRUE

\* assert self.fit_parameters == self.known_parameters[:ndim]
fit_parameters_asserted(fit_parameters) ==
    fit_parameters = Slice(known_parameters, Len(fit_parameters))

\* faulty variant: did_run is set before the engine is started
run_nestle_flag_first(st, call, theta, ll) ==
    LET ndim == Len(st.fit_parameters)
        flagged == [st EXCEPT !.did_run = TRUE]
    IN  IF ~fit_parameters_asserted(st.fit_parameters)
          THEN Outcome(st,
                       Raised("AssertionError",
                              <<Shown("fit_parameters", st.fit_parameters)>>),
                       <<>>)
        ELSE LET out == _log_probability_nestle(theta, ll)
                 inv == <<Invocation(call, st.fit_parameters,
                                     out.error.type # "none",
                                     <<likelihood_names(theta),
                                       prior_transform_names(theta)>>)>>
             IN  IF out.error.type = "ValueError"
                   THEN Outcome(flagged, out.error, inv)
                   ELSE Outcome([flagged EXCEPT !.result = <<[ndim |-> ndim]>>],
                                NoError, inv)

\* NestleStatModel.run_nestle(); the engine evaluates the likelihood at theta
\* and gets ll, and an exception of the likelihood leaves nestle.sample
run_nestle(st, call, theta, ll) ==
    LET ndim == Len(st.fit_parameters)
    IN  IF ~fit_parameters_asserted(st.fit_parameters)
          THEN Outcome(st,
                       Raised("AssertionError",
                              <<Shown("fit_parameters", st.fit_parameters)>>),
                       <<>>)
        ELSE LET out == _log_probability_nestle(theta, ll)
                 inv == <<Invocation(call, st.fit_parameters,
                                     out.error.type # "none",
                                     <<likelihood_names(theta),
                                       prior_transform_names(theta)>>)>>
             IN  IF out.error.type = "ValueError"
                   THEN Outcome(st, out.error, inv)      \* raise e
                   ELSE Outcome([st EXCEPT !.result = <<[ndim |-> ndim]>>,
                                           !.did_run = TRUE],
                                NoError, inv)

\* faulty variant: the run is started whatever did_run says
check_did_run_always(st, call, theta, ll) == run_nestle(st, call, theta, ll)

\* NestleStatModel.check_did_run()
check_did_run(st, call, theta, ll) ==
    IF ~st.did_run THEN run_nestle(st, call, theta, ll) ELSE Returned(st)

\* b after a: b is not reached when a raised
Then(a, b) ==
    IF a.error.type # "none" THEN a
    ELSE Outcome(b.st, b.error, a.engine \o b.engine)

\* NestleStatModel.get_summary()
get_summary(st, call, theta, ll) == check_did_run(st, call, theta, ll)

\* NestleStatModel.save_results()
save_results(st, call, theta, ll) ==
    LET ran == check_did_run(st, call, theta, ll)
        summed == Then(ran, get_summary(ran.st, call, theta, ll))
    IN  Then(summed, Returned([summed.st EXCEPT !.saved_in = "save_dir"]))

\* NestleStatModel.check_did_save()
check_did_save(st, call, theta, ll) ==
    IF st.saved_in = "None" THEN save_results(st, call, theta, ll)
    ELSE Returned(st)

\* NestleStatModel.show_corner()
show_corner(st, call, theta, ll) == check_did_save(st, call, theta, ll)

\* ---- MCMCStatModel ----

\* MCMCStatModel.__init__
MCMCStatModel ==
    [kind |-> "mcmc",
     fit_parameters |-> <<"log_mass", "log_cross_section">>,
                              \* self.config['fit_parameters']
     did_run |-> FALSE,       \* self.log_dict['did_run']
     saved_in |-> "None",     \* self.config['save_dir']
     result |-> <<>>,         \* (nested sampling only)
     sampler |-> FALSE,       \* self.log_dict['sampler']
     pos |-> FALSE]           \* self.log_dict['pos']

\* StatModel._fix_parameters(): the validation of the configuration that
\* precedes every sampler invocation
_fix_parameters(st) ==
    IF st.fit_parameters = Slice(known_parameters, Len(st.fit_parameters))
      THEN Returned(st)
      ELSE Outcome(st,
                   Raised("NameError",
                          <<Shown("fit_parameters", st.fit_parameters)>>),
                   <<>>)

\* MCMCStatModel.set_sampler()
set_sampler(st) == [st EXCEPT !.sampler = TRUE]

\* MCMCStatModel._set_pos()
_set_pos(st) == [st EXCEPT !.pos = TRUE]

\* self.sampler.run_mcmc(self.pos, self.nsteps): emcee raises ValueError
\* when the log-probability ll of a walker is NaN
run_mcmc(ll) ==
    IF IsNaN(ll) THEN Raised("ValueError", <<>>) ELSE NoError

\* MCMCStatModel.run_emcee()
run_emcee(st, call, theta, ll) ==
    LET fixed == _fix_parameters(st)
        with_sampler == IF ~fixed.st.sampler THEN set_sampler(fixed.st)
                        ELSE fixed.st
        with_pos == IF ~with_sampler.pos THEN _set_pos(with_sampler)
                    ELSE with_sampler
        e == run_mcmc(ll)
        inv == <<Invocation(call, with_pos.fit_parameters, e.type # "none",
                            <<with_pos.fit_parameters>>)>>
    IN  IF fixed.error.type # "none" THEN fixed
        ELSE IF e.type = "ValueError"
          THEN Outcome(with_pos,
                       Raised("ValueError",
                              <<Shown("pos.shape", "nwalkers x ndim"),
                                Shown("nsteps", "nsteps"),
                                Shown("nwalkers", "nwalkers"),
                                Shown("ndim", Len(with_pos.fit_parameters)),
                                Shown("fit_parameters",
                                      with_pos.fit_parameters)>>),
                       inv)
        ELSE Outcome([with_pos EXCEPT !.did_run = TRUE], NoError, inv)

\* faulty variant: the run is started whatever did_run says
run_if_not_did_run_always(st, call, theta, ll) == run_emcee(st, call, theta, ll)

\* if not self.log_dict['did_run']: self.run_emcee()
run_if_not_did_run(st, call, theta, ll) ==
    IF ~st.did_run THEN run_emcee(st, call, theta, ll) ELSE Returned(st)

\* MCMCStatModel.show_walkers()
show_walkers(st, call, theta, ll) == run_if_not_did_run(st, call, theta, ll)

\* MCMCStatModel.show_corner()
show_corner_mcmc(st, call, theta, ll) == run_if_not_did_run(st, call, theta, ll)

\* MCMCStatModel.save_results()
save_results_mcmc(st, call, theta, ll) ==
    LET ran == run_if_not_did_run(st, call, theta, ll)
    IN  Then(ran, Returned([ran.st EXCEPT !.saved_in = "save_dir"]))

\* ---- the calls a user of an instance makes ----

SmpInit ==
    /\ stats \in {NestleStatModel, MCMCStatModel}
    /\ engine_log = {}
    /\ engine_calls = 0
    /\ last_call = [name |-> "__init__", arg |-> <<>>, error |-> NoError]

SmpIdle ==
    /\ stats = NestleStatModel
    /\ engine_log = {}
    /\ engine_calls = 0
    /\ last_call = [name |-> "__init__", arg |-> <<>>, error |-> NoError]

\* the method called and the flags of the instance when it is entered
Call(name) ==
    [name |-> name, did_run |-> stats.did_run,
     failed |-> \E inv \in engine_log : inv.raised]

\* a call of method name with argument arg that ends as out says
Do(name, arg, out) ==
    /\ stats' = out.st
    /\ engine_log' = engine_log \cup {out.engine[i] : i \in 1..Len(out.engine)}
    /\ engine_calls' = engine_calls + Len(out.engine)
    /\ last_call' = [name |-> name, arg |-> arg, error |-> out.error]

EngineFree == engine_calls < MaxEngineCalls
Candidates == {<<FirstTheta(Len(stats.fit_parameters)), ll>> : ll \in LLValues}

\* stats.set_fit_parameters(params), params among lists (or tuples of them)
SetFitParameters(lists) ==
    /\ stats.kind = "nestle"
    /\ \E items \in lists, is_list \in BOOLEAN :
          LET params == [is_list |-> is_list, items |-> items]
          IN  Do("set_fit_parameters", params, set_fit_parameters(stats, params))

\* stats.fit_parameters = ... (stats.config['fit_parameters'] = ... for MCMC)
AssignFitParameters(lists) ==
    \E items \in lists :
        Do("assign_fit_parameters", <<>>,
           Returned([stats EXCEPT !.fit_parameters = items]))

RunNestle ==
    /\ stats.kind = "nestle" /\ EngineFree
    /\ \E c \in Candidates :
          Do("run_nestle", <<>>, run_nestle(stats, Call("run_nestle"), c[1], c[2]))

GetSummary ==
    /\ stats.kind = "nestle" /\ EngineFree
    /\ \E c \in Candidates :
          Do("get_summary", <<>>,
             get_summary(stats, Call("get_summary"), c[1], c[2]))

SaveResults ==
    /\ stats.kind = "nestle" /\ EngineFree
    /\ \E c \in Candidates :
          Do("save_results", <<>>,
             save_results(stats, Call("save_results"), c[1], c[2]))

ShowCorner ==
    /\ stats.kind = "nestle" /\ EngineFree
    /\ \E c \in Candidates :
          Do("show_corner", <<>>,
             show_corner(stats, Call("show_corner"), c[1], c[2]))

RunEmcee ==
    /\ stats.kind = "mcmc" /\ EngineFree
    /\ \E c \in Candidates :
          Do("run_emcee", <<>>, run_emcee(stats, Call("run_emcee"), c[1], c[2]))

ShowWalkers ==
    /\ stats.kind = "mcmc" /\ EngineFree
    /\ \E c \in Candidates :
          Do("show_walkers", <<>>,
             show_walkers(stats, Call("show_walkers"), c[1], c[2]))

ShowCornerMCMC ==
    /\ stats.kind = "mcmc" /\ EngineFree
    /\ \E c \in Candidates :
          Do("show_corner", <<>>,
             show_corner_mcmc(stats, Call("show_corner"), c[1], c[2]))

SaveResultsMCMC ==
    /\ stats.kind = "mcmc" /\ EngineFree
    /\ \E c \in Candidates :
          Do("save_results", <<>>,
             save_results_mcmc(stats, Call("save_results"), c[1], c[2]))

SmpNext ==
    \/ SetFitParameters(ConfigLists)
          /\ UNCHANGED <<thr_vars, det_vars, smear_vars, lik_vars, data_vars, sum_vars,
                       prior_vars, pipe_vars, rebin_vars, more_vars>>
    \/ AssignFitParameters(ConfigLists)
          /\ UNCHANGED <<thr_vars, det_vars, smear_vars, lik_vars, data_vars, sum_vars,
                       prior_vars, pipe_vars, rebin_vars, more_vars>>
    \/ RunNestle /\ UNCHANGED <<thr_vars, det_vars, smear_vars, lik_vars, data_vars, sum_vars,
                       prior_vars, pipe_vars, rebin_vars, more_vars>>
    \/ GetSummary /\ UNCHANGED <<thr_vars, det_vars, smear_vars, lik_vars, data_vars, sum_vars,
                       prior_vars, pipe_vars, rebin_vars, more_vars>>
    \/ SaveResults /\ UNCHANGED <<thr_vars, det_vars, smear_vars, lik_vars, data_vars, sum_vars,
                       prior_vars, pipe_vars, rebin_vars, more_vars>>
    \/ ShowCorner /\ UNCHANGED <<thr_vars, det_vars, smear_vars, lik_vars, data_vars, sum_vars,
                       prior_vars, pipe_vars, rebin_vars, more_vars>>
    \/ RunEmcee /\ UNCHANGED <<thr_vars, det_vars, smear_vars, lik_vars, data_vars, sum_vars,
                       prior_vars, pipe_vars, rebin_vars, more_vars>>
    \/ ShowWalkers /\ UNCHANGED <<thr_vars, det_vars, smear_vars, lik_vars, data_vars, sum_vars,
                       prior_vars, pipe_vars, rebin_vars, more_vars>>
    \/ ShowCornerMCMC /\ UNCHANGED <<thr_vars, det_vars, smear_vars, lik_vars, data_vars, sum_vars,
                       prior_vars, pipe_vars, rebin_vars, more_vars>>
    \/ SaveResultsMCMC /\ UNCHANGED <<thr_vars, det_vars, smear_vars, lik_vars, data_vars, sum_vars,
                       prior_vars, pipe_vars, rebin_vars, more_vars>>

\* configuring an instance, with every parameter list of up to MaxParams names
ConfigNext ==
    \/ SetFitParameters(ParamLists)
          /\ UNCHANGED <<thr_vars, det_vars, smear_vars, lik_vars, data_vars, sum_vars,
                       prior_vars, pipe_vars, rebin_vars, more_vars>>
    \/ AssignFitParameters(ParamLists)
          /\ UNCHANGED <<thr_vars, det_vars, smear_vars, lik_vars, data_vars, sum_vars,
                       prior_vars, pipe_vars, rebin_vars, more_vars>>

-----------------------------------------------------------------------------
(* The likelihood callback on its own: a candidate vector theta and the     *)
(* value ll that log_likelihood returns for it.                             *)

\* one likelihood evaluation, as recorded in last_eval
Evaluation(theta, names, ll, out) ==
    [theta |-> theta, names |-> names, ll |-> ll, error |-> out.error,
     value |-> out.value]

LikInit == last_eval = <<>>
LikIdle == last_eval = <<>>

\* the engine calls self._log_probability_nestle(theta)
EvalLogProbability ==
    \E ndim \in 0..MaxDim :
        \E theta \in Thetas(ndim), ll \in LLValues :
            last_eval' = <<Evaluation(theta, Slice(known_parameters, Len(theta)),
                                      ll, _log_probability_nestle(theta, ll))>>

LikNext ==
    EvalLogProbability /\ UNCHANGED <<thr_vars, det_vars, smear_vars, smp_vars, data_vars, sum_vars,
                       prior_vars, pipe_vars, rebin_vars, more_vars>>

-----------------------------------------------------------------------------
(* DetectorSpectrum.get_data of the older class: the expected counts of    *)
(* get_events(), a Poisson draw when poisson is set, and the clamp.        *)

\* np.random.poisson(lam): the outcomes it can have.  A negative mean makes
\* numpy raise ValueError; a mean of 0 gives 0; draws are capped at MaxDraw.
np_random_poisson(lam) ==
    IF \E i \in 1..Len(lam) : lam[i] < 0
      THEN {[error |-> "ValueError", value |-> <<>>]}
      ELSE {[error |-> "none", value |-> d] :
              d \in {f \in [1..Len(lam) -> 0..MaxDraw] :
                        \A i \in 1..Len(lam) : lam[i] = 0 => f[i] = 0}}

\* GenSpectrum.set_negative_to_zero(result): negative counts become 0
set_negative_to_zero(counts) ==
    [i \in 1..Len(counts) |-> IF counts[i] < 0 THEN 0 ELSE counts[i]]

\* DetectorSpectrum.get_data(poisson): the outcomes it can have, each with the
\* means handed to np.random.poisson (get_poisson_events)
get_data(get_events, with_poisson) ==
    IF with_poisson
      THEN {[error |-> o.error, means |-> <<get_events>>,
             counts |-> IF o.error = "none"
                          THEN set_negative_to_zero(o.value) ELSE <<>>] :
              o \in np_random_poisson(get_events)}
      ELSE {[error |-> "none", means |-> <<>>,
             counts |-> set_negative_to_zero(get_events)]}

\* expected counts per bin as the spectrum and the background function give
\* them; they are not clamped before get_data sees them
DataInit ==
    /\ \E n \in 1..MaxDataBins : events \in [1..n -> (-1)..MaxCount]
    /\ poisson \in BOOLEAN
    /\ poisson_means = <<>>
    /\ data_out = <<>>

DataIdle ==
    /\ events = <<>>
    /\ poisson = FALSE
    /\ poisson_means = <<>>
    /\ data_out = <<>>

GetData ==
    /\ data_out = <<>>
    /\ \E out \in get_data(events, poisson) :
          /\ data_out' = <<out>>
          /\ poisson_means' = poisson_means \o out.means
    /\ UNCHANGED <<events, poisson>>

DataNext ==
    GetData /\ UNCHANGED <<thr_vars, det_vars, smear_vars, smp_vars, lik_vars,
                           sum_vars, prior_vars, pipe_vars, rebin_vars, more_vars>>

-----------------------------------------------------------------------------
(* NestleStatModel.get_summary on a finished run with one fit parameter:   *)
(* the rejection resampling and the reported mean and covariance.          *)

RECURSIVE RatSum(_, _)
\* xs[1] + ... + xs[n]
RatSum(xs, n) == IF n = 0 THEN Zero ELSE RatAdd(RatSum(xs, n - 1), xs[n])

RatDiv(x, y) == Rat(x[1] * y[2], x[2] * y[1])

RECURSIVE MaxOf(_, _)
\* np.max of the first n entries (n >= 1)
MaxOf(xs, n) ==
    IF n = 1 THEN xs[1]
    ELSE LET m == MaxOf(xs, n - 1) IN IF xs[n] > m THEN xs[n] ELSE m

\* faulty variant: the weights are scaled to sum to one
nweights_by_sum(weights) ==
    [i \in 1..Len(weights) |->
        RatDiv(FromInt(weights[i]),
               RatSum([k \in 1..Len(weights) |-> FromInt(weights[k])],
                      Len(weights)))]

\* nweights = self.result.weights / np.max(self.result.weights)
nweights(weights) ==
    [i \in 1..Len(weights) |-> Rat(weights[i], MaxOf(weights, Len(weights)))]

\* keepidx = np.where(np.random.rand(len(nweights)) < nweights)[0]
keepidx(draws, nw) == {i \in 1..Len(nw) : RatLess(draws[i], nw[i])}

\* nestle.mean_and_cov(x, weights) for one parameter:
\*   mean = np.average(x, weights=weights)
\*   cov = wsum / (wsum**2 - w2sum) * sum(weights * (x - mean)**2)
mean_and_cov(x, weights) ==
    LET n == Len(x)
        wsum == RatSum([i \in 1..n |-> FromInt(weights[i])], n)
        w2sum == RatSum([i \in 1..n |-> FromInt(weights[i] * weights[i])], n)
        mean == RatDiv(RatSum([i \in 1..n |-> FromInt(weights[i] * x[i])], n),
                       wsum)
        dx == [i \in 1..n |-> RatSub(FromInt(x[i]), mean)]
        ss == RatSum([i \in 1..n |->
                        RatMul(FromInt(weights[i]), RatMul(dx[i], dx[i]))], n)
    IN  [p |-> mean,
         cov |-> RatMul(RatDiv(wsum, RatSub(RatMul(wsum, wsum), w2sum)), ss)]

\* the part of get_summary after check_did_run: what it computes
summary(samples, weights, draws) ==
    LET keep == keepidx(draws, nweights(weights))
        mc == mean_and_cov(samples, weights)
    IN  [keepidx |-> keep,
         nestle_nposterior |-> Cardinality(keep),
         p |-> mc.p,
         cov |-> mc.cov]

\* a finished run: at least two samples of positive weight; the uniform
\* draws of np.random.rand lie in [0, 1): 0, 1/2 or 9/10
SumInit ==
    /\ \E n \in 2..MaxSamples :
          /\ result_samples \in [1..n -> 0..MaxSampleValue]
          /\ result_weights \in [1..n -> 1..MaxWeight]
          /\ rand_draws \in [1..n -> {Zero, Rat(1, 2), Rat(9, 10)}]
    /\ summary_out = <<>>

SumIdle ==
    /\ result_samples = <<>>
    /\ result_weights = <<>>
    /\ rand_draws = <<>>
    /\ summary_out = <<>>

SummaryOfRun ==
    /\ summary_out = <<>>
    /\ summary_out' = <<summary(result_samples, result_weights, rand_draws)>>
    /\ UNCHANGED <<result_samples, result_weights, rand_draws>>

SumNext ==
    SummaryOfRun /\ UNCHANGED <<thr_vars, det_vars, smear_vars, smp_vars,
                                lik_vars, data_vars, prior_vars, pipe_vars,
                                rebin_vars, more_vars>>

-----------------------------------------------------------------------------
(* NestleStatModel.log_prior_transform_nestle.                             *)
(*                                                                         *)
(* The flat branch is computed in binary floating point with a mantissa of *)
(* FloatPrecision bits, every operation rounded to nearest, ties to even   *)
(* (the exponent is unbounded: no overflow or underflow).  The Gaussian    *)
(* branch is computed with exact rationals; spsp.ndtr and spsp.ndtri are   *)
(* replaced by a strictly increasing stand-in that saturates as the double *)
(* precision functions do: ndtr is exactly 0.0 far enough below the mean   *)
(* and exactly 1.0 far enough above it, ndtri(0.0) is -inf and ndtri(1.0)  *)
(* is +inf.                                                                *)

FloatPrecision == 3

RECURSIVE Pow2(_)
Pow2(k) == IF k = 0 THEN 1 ELSE 2 * Pow2(k - 1)

\* n/d > 0 written as (n'/d') * 2^e with 2^(p-1) <= n'/d' < 2^p
RECURSIVE FlScale(_, _, _)
FlScale(n, d, e) ==
    IF n < d * Pow2(FloatPrecision - 1) THEN FlScale(2 * n, d, e - 1)
    ELSE IF n >= d * Pow2(FloatPrecision) THEN FlScale(n, 2 * d, e + 1)
    ELSE <<n, d, e>>

\* n/d >= 0 rounded to the nearest integer, ties to the even one
RoundHalfEven(n, d) ==
    LET q == n \div d
        r == n % d
    IN  IF 2 * r < d THEN q
        ELSE IF 2 * r > d THEN q + 1
        ELSE IF q % 2 = 0 THEN q ELSE q + 1

\* the floating point number nearest to the rational x
fl(x) ==
    IF x[1] = 0 THEN Zero
    ELSE LET sgn == IF x[1] < 0 THEN -1 ELSE 1
             sc == FlScale(Abs(x[1]), x[2], 0)
             mant == RoundHalfEven(sc[1], sc[2])
         IN  IF sc[3] >= 0 THEN Rat(sgn * mant * Pow2(sc[3]), 1)
             ELSE Rat(sgn * mant, Pow2(-sc[3]))

\* a value of the transform: a finite number, -inf (inf = -1) or +inf (inf = 1)
Finite(v) == [inf |-> 0, val |-> v]
Infinite(sgn) == [inf |-> sgn, val |-> Zero]

\* z-scores at and beyond which the stand-in for spsp.ndtr is 0.0 and 1.0
NdtrZeroAt == -3
NdtrOneAt == 2

\* spsp.ndtr(z)
ndtr(z) ==
    IF ~RatLess(FromInt(NdtrZeroAt), z) THEN Zero
    ELSE IF ~RatLess(z, FromInt(NdtrOneAt)) THEN FromInt(1)
    ELSE RatDiv(RatSub(z, FromInt(NdtrZeroAt)),
                FromInt(NdtrOneAt - NdtrZeroAt))

\* spsp.ndtri(p) for 0 <= p <= 1
ndtri(p) ==
    IF p = Zero THEN Infinite(-1)
    ELSE IF p = FromInt(1) THEN Infinite(1)
    ELSE Finite(RatAdd(FromInt(NdtrZeroAt),
                       RatMul(p, FromInt(NdtrOneAt - NdtrZeroAt))))

\* faulty variant: the flat prior loses its offset
log_prior_transform_nestle_no_offset(x, pr) ==
    IF pr.prior_type = "flat"
      THEN LET a == pr.param[1]
               b == pr.param[2]
           IN  [error |-> NoError,
                value |-> Finite(fl(RatMul(x, fl(RatSub(b, a)))))]
    ELSE IF pr.prior_type = "gauss"
      THEN LET a == pr.range[1]
               b == pr.range[2]
               m == pr.param[1]
               sd == pr.param[2]
               aprime == ndtr(RatDiv(RatSub(a, m), sd))
               bprime == ndtr(RatDiv(RatSub(b, m), sd))
               xprime == RatAdd(RatMul(x, RatSub(bprime, aprime)), aprime)
               z == ndtri(xprime)
           IN  [error |-> NoError,
                value |-> IF z.inf # 0 THEN z
                          ELSE Finite(RatAdd(m, RatMul(sd, z.val)))]
    ELSE [error |-> Raised("TypeError",
                           <<Shown("prior_type", pr.prior_type)>>),
          value |-> Finite(Zero)]

\* faulty variant: an unknown prior type returns x as it is
log_prior_transform_nestle_lenient(x, pr) ==
    IF pr.prior_type = "flat"
      THEN LET a == pr.param[1]
               b == pr.param[2]
           IN  [error |-> NoError,
                value |-> Finite(fl(RatAdd(fl(RatMul(x, fl(RatSub(b, a)))), a)))]
    ELSE IF pr.prior_type = "gauss"
      THEN LET a == pr.range[1]
               b == pr.range[2]
               m == pr.param[1]
               sd == pr.param[2]
               aprime == ndtr(RatDiv(RatSub(a, m), sd))
               bprime == ndtr(RatDiv(RatSub(b, m), sd))
               xprime == RatAdd(RatMul(x, RatSub(bprime, aprime)), aprime)
               z == ndtri(xprime)
           IN  [error |-> NoError,
                value |-> IF z.inf # 0 THEN z
                          ELSE Finite(RatAdd(m, RatMul(sd, z.val)))]
    ELSE [error |-> NoError, value |-> Finite(x)]

\* NestleStatModel.log_prior_transform_nestle(x, x_name) with
\* pr = self.config['prior'][x_name]
log_prior_transform_nestle(x, pr) ==
    IF pr.prior_type = "flat"
      THEN LET a == pr.param[1]
               b == pr.param[2]
           IN  [error |-> NoError,
                value |-> Finite(fl(RatAdd(fl(RatMul(x, fl(RatSub(b, a)))), a)))]
    ELSE IF pr.prior_type = "gauss"
      THEN LET a == pr.range[1]
               b == pr.range[2]
               m == pr.param[1]
               sd == pr.param[2]
               aprime == ndtr(RatDiv(RatSub(a, m), sd))
               bprime == ndtr(RatDiv(RatSub(b, m), sd))
               xprime == RatAdd(RatMul(x, RatSub(bprime, aprime)), aprime)
               z == ndtri(xprime)
           IN  [error |-> NoError,
                value |-> IF z.inf # 0 THEN z
                          ELSE Finite(RatAdd(m, RatMul(sd, z.val)))]
    ELSE [error |-> Raised("TypeError",
                           <<Shown("prior_type", pr.prior_type)>>),
          value |-> Finite(Zero)]

\* the integers of magnitude up to n that are floating point numbers
FloatsUpTo(n) == {FromInt(k) : k \in {j \in (-n)..n : fl(FromInt(j)) = FromInt(j)}}

\* points of the unit interval
UnitValues == {Zero, Rat(1, 4), Rat(1, 2), FromInt(1)}

\* prior configurations: flat on [a, b], Gaussian with mean m and standard
\* deviation s on the range [a, b], and types the method does not know
Priors ==
    {[prior_type |-> "flat", param |-> <<a, b>>, range |-> <<a, b>>] :
        a \in FloatsUpTo(MaxPrior), b \in FloatsUpTo(MaxPrior)}
    \cup
    {[prior_type |-> "gauss", param |-> <<FromInt(m), FromInt(sd)>>,
      range |-> <<FromInt(a), FromInt(b)>>] :
        m \in 0..1, sd \in 1..MaxStd,
        a \in (-MaxRange)..MaxRange, b \in (-MaxRange)..MaxRange}
    \cup
    {[prior_type |-> t, param |-> <<a, b>>, range |-> <<a, b>>] :
        t \in {"uniform", "Gauss"},
        a \in FloatsUpTo(1), b \in FloatsUpTo(1)}

PriorInit ==
    /\ prior \in {pr \in Priors : RatLess(pr.range[1], pr.range[2])}
    /\ x_in \in UnitValues
    /\ prior_out = <<>>

PriorIdle ==
    /\ prior = <<>>
    /\ x_in = <<>>
    /\ prior_out = <<>>

\* the engine calls self.log_prior_transform_nestle(val, name)
LogPriorTransform ==
    /\ prior_out = <<>>
    /\ prior_out' = <<log_prior_transform_nestle(x_in, prior)>>
    /\ UNCHANGED <<prior, x_in>>

PriorNext ==
    LogPriorTransform /\ UNCHANGED <<thr_vars, det_vars, smear_vars, smp_vars,
                                     lik_vars, data_vars, sum_vars, pipe_vars,
                                     rebin_vars, more_vars>>

-----------------------------------------------------------------------------
(* The order of the steps of the detector pipeline.  A rate array is       *)
(* followed through the method as the array the spectrum started from and  *)
(* the steps it went through; what each step computes is modelled in the   *)
(* sections above.                                                         *)

\* rates = self.spectrum_simple(...)
spectrum_simple(rs) == [data |-> rs, history |-> <<"spectrum_simple">>]

\* step applied to the array v: the array that results
Step(name, v) == [v EXCEPT !.history = Append(v.history, name)]

\* the record of one step: its name and the array it was given
StepRecord(name, v) == [step |-> name, input |-> v.history]

\* dddm DetectorSpectrum._calculate_counts: the steps in the order the method
\* runs them
calculate_counts_steps(rs) ==
    LET r0 == spectrum_simple(rs)
        r1 == Step("background", r0)        \* rates += background_function(...)
        r2 == Step("smear_signal", r1)      \* rates = smear_signal(rates, ...)
        r3 == Step("above_threshold", r2)   \* rates = self.above_threshold(...)
    IN  <<StepRecord("background", r0),
          StepRecord("smear_signal", r1),
          StepRecord("above_threshold", r2),
          StepRecord("exposure", r3)>>      \* rates * bin_width * effective_exposure

\* DirectDmTargets DetectorSpectrum.compute_detected_spectrum: the steps in
\* the order the method runs them
compute_detected_spectrum_steps(rs, with_background) ==
    LET r0 == spectrum_simple(rs)
        r1 == IF with_background THEN Step("background", r0) ELSE r0
        r2 == Step("above_threshold", r1)   \* rates = self.above_threshold(...)
        r3 == Step("smear_signal", r2)      \* events = smear_signal(rates, ...)
        r4 == Step("chuck_integration", r3) \* events = self.chuck_integration(...)
    IN  (IF with_background THEN <<StepRecord("background", r0)>> ELSE <<>>)
        \o <<StepRecord("above_threshold", r1),
             StepRecord("smear_signal", r2),
             StepRecord("chuck_integration", r3),
             StepRecord("exposure", r4)>>   \* events * self.experiment['exp_eff']

\* the dddm class always adds its background function
PipeInit ==
    /\ pipe_impl \in {"dddm", "legacy"}
    /\ pipe_bg \in IF pipe_impl = "dddm" THEN {TRUE} ELSE BOOLEAN
    /\ \E n \in 1..MaxPipeBins : pipe_rates \in [1..n -> RateValues]
    /\ pipe_steps = <<>>

PipeIdle ==
    /\ pipe_impl = "dddm"
    /\ pipe_bg = FALSE
    /\ pipe_rates = <<>>
    /\ pipe_steps = <<>>

CalculateCounts ==
    /\ pipe_impl = "dddm"
    /\ pipe_steps = <<>>
    /\ pipe_steps' = calculate_counts_steps(pipe_rates)
    /\ UNCHANGED <<pipe_impl, pipe_bg, pipe_rates>>

ComputeDetectedSpectrum ==
    /\ pipe_impl = "legacy"
    /\ pipe_steps = <<>>
    /\ pipe_steps' = compute_detected_spectrum_steps(pipe_rates, pipe_bg)
    /\ UNCHANGED <<pipe_impl, pipe_bg, pipe_rates>>

PipeNext ==
    \/ CalculateCounts /\ UNCHANGED <<thr_vars, det_vars, smear_vars, smp_vars,
                                      lik_vars, data_vars, sum_vars, prior_vars,
                                      rebin_vars, more_vars>>
    \/ ComputeDetectedSpectrum
          /\ UNCHANGED <<thr_vars, det_vars, smear_vars, smp_vars, lik_vars,
                         data_vars, sum_vars, prior_vars, rebin_vars, more_vars>>

-----------------------------------------------------------------------------
(* DetectorSpectrum.chuck_integration(rates, energies, bins).              *)

\* the members of a set of indices in increasing order
RECURSIVE Ascending(_)
Ascending(S) ==
    IF S = {} THEN <<>>
    ELSE LET lo == CHOOSE i \in S : \A j \in S : i <= j
         IN  <<lo>> \o Ascending(S \ {lo})

\* np.average(np.diff(energies[mask])): NaN when fewer than two energies
\* are selected
average_diff(energies, idx) ==
    IF Len(idx) < 2 THEN [nan |-> TRUE, val |-> Zero]
    ELSE [nan |-> FALSE,
          val |-> RatDiv(RatSum([k \in 1..(Len(idx) - 1) |->
                                    FromInt(energies[idx[k + 1]] - energies[idx[k]])],
                                Len(idx) - 1),
                         FromInt(Len(idx) - 1))]

\* np.sum(rates[mask] * bin_width)
sum_times_width(rs, idx, bin_width) ==
    IF bin_width.nan /\ Len(idx) > 0 THEN [nan |-> TRUE, val |-> Zero]
    ELSE [nan |-> FALSE,
          val |-> RatSum([k \in 1..Len(idx) |->
                            RatMul(FromInt(rs[idx[k]]), bin_width.val)],
                         Len(idx))]

\* faulty variant: the mask has no upper edge
chuck_integration_open_ended(rs, energies, bins) ==
    [i \in 1..Len(bins) |->
        LET mask == {j \in 1..Len(energies) : energies[j] > bins[i][1]}
            bin_width == average_diff(energies, Ascending(mask))
        IN  [mask |-> mask,
             res |-> sum_times_width(rs, Ascending(mask), bin_width)]]

\* chuck_integration: entry i is res[i], with the mask it was summed over
chuck_integration(rs, energies, bins) ==
    [i \in 1..Len(bins) |->
        LET mask == {j \in 1..Len(energies) :
                        energies[j] > bins[i][1] /\ energies[j] < bins[i][2]}
            bin_width == average_diff(energies, Ascending(mask))
        IN  [mask |-> mask,
             res |-> sum_times_width(rs, Ascending(mask), bin_width)]]

\* energies: the centres of n bins of width 2 * half_width from e_min on
FineCenters(e_min, half_width, n) ==
    [k \in 1..n |-> e_min + 2 * half_width * (k - 1) + half_width]

\* result_bins: n adjacent bins of the given width from e_min on
AlignedBins(e_min, width, n) ==
    [i \in 1..n |-> <<e_min + width * (i - 1), e_min + width * i>>]

\* a fine grid and an output grid of factor times its bin width, both
\* starting at e_min
RebinInit ==
    /\ \E e_min \in 0..1, half_width \in 1..MaxHalfWidth,
          factor \in 1..MaxFactor, n \in 1..MaxCoarse :
          /\ fine_rates \in [1..(factor * n) -> RateValues]
          /\ fine_energies = FineCenters(e_min, half_width, factor * n)
          /\ result_bins = AlignedBins(e_min, 2 * half_width * factor, n)
    /\ rebin_out = <<>>

RebinIdle ==
    /\ fine_rates = <<>>
    /\ fine_energies = <<>>
    /\ result_bins = <<>>
    /\ rebin_out = <<>>

\* events = self.chuck_integration(events, energies, result_bins)
ChuckIntegration ==
    /\ fine_rates # <<>>
    /\ rebin_out = <<>>
    /\ rebin_out' = chuck_integration(fine_rates, fine_energies, result_bins)
    /\ UNCHANGED <<fine_rates, fine_energies, result_bins>>

RebinNext ==
    ChuckIntegration /\ UNCHANGED <<thr_vars, det_vars, smear_vars, smp_vars,
                                    lik_vars, data_vars, sum_vars, prior_vars,
                                    pipe_vars, more_vars>>

-----------------------------------------------------------------------------
(* MCMCStatModel._set_pos(use_pos): the start positions of the walkers.   *)

\* statistics.get_prior_list(): the parameters that have a prior, in the
\* canonical order
get_prior_list == known_parameters

\* np.clip(x, a, b)
np_clip(x, a, b) ==
    LET low == IF RatLess(x, a) THEN a ELSE x
    IN  IF RatLess(b, low) THEN b ELSE low

\* val + 0.005 * val * z
jittered(val, z) ==
    RatAdd(val, RatMul(RatMul(Rat(5, 1000), val), z))

\* np.hstack of n columns of nwalkers rows: row w is <<column 1[w], ...>>
np_hstack(columns, nwalkers) ==
    [w \in 1..nwalkers |-> [i \in 1..Len(columns) |-> columns[i][w]]]

\* faulty variant: the start positions are not clipped
set_pos_unclipped(self, use_pos) ==
    IF use_pos # "None" THEN use_pos
    ELSE LET nparameters == Len(self.fit_parameters)
             keys == Slice(get_prior_list, nparameters)
             pos == [i \in 1..Len(keys) |->
                        [w \in 1..self.nwalkers |->
                            jittered(self.attr[keys[i]], self.randn[i][w])]]
         IN  np_hstack(pos, self.nwalkers)

\* MCMCStatModel._set_pos(use_pos): the array assigned to self.pos; randn[i]
\* is what np.random.randn(self.nwalkers, 1) returns in iteration i
set_pos(self, use_pos) ==
    IF use_pos # "None" THEN use_pos
    ELSE LET nparameters == Len(self.fit_parameters)
             keys == Slice(get_prior_list, nparameters)
             ranges == [i \in 1..nparameters |->
                           self.prior[self.fit_parameters[i]]]
             pos == [i \in 1..Len(keys) |->
                        LET val == self.attr[keys[i]]
                            a == ranges[i][1]
                            b == ranges[i][2]
                        IN  [w \in 1..self.nwalkers |->
                                np_clip(jittered(val, self.randn[i][w]), a, b)]]
         IN  np_hstack(pos, self.nwalkers)

\* the benchmark values, the attributes getattr(self, key) reads
BenchmarkValues ==
    [k \in KnownNames |->
        CASE k = "log_mass" -> FromInt(2)
          [] k = "log_cross_section" -> FromInt(-4)
          [] OTHER -> FromInt(3)]

\* prior ranges [a, b] with a < b; the benchmark may lie outside
PriorRanges == {<<FromInt(1), FromInt(3)>>, <<FromInt(-5), FromInt(-3)>>}

\* standard normal draws, far out so that the jitter leaves the range
NormalDraws == {FromInt(-200), Zero, FromInt(200)}

PosInit ==
    /\ \E nparameters \in 1..MaxParams, nwalkers \in 1..MaxWalkers :
          \E pr \in [KnownNames -> PriorRanges],
             z \in [1..nparameters -> [1..nwalkers -> NormalDraws]],
             use_pos \in {"None", <<<<FromInt(9)>>>>} :
                set_pos_in = [nwalkers |-> nwalkers,
                              fit_parameters |-> Slice(known_parameters, nparameters),
                              attr |-> BenchmarkValues,
                              prior |-> pr,
                              randn |-> z,
                              use_pos |-> use_pos]
    /\ \A k \in KnownNames :
          k \notin {set_pos_in.fit_parameters[i] :
                       i \in 1..Len(set_pos_in.fit_parameters)}
            => set_pos_in.prior[k] = <<FromInt(1), FromInt(3)>>
    /\ set_pos_out = <<>>

PosIdle ==
    /\ set_pos_in = <<>>
    /\ set_pos_out = <<>>

\* self._set_pos(use_pos)
SetPos ==
    /\ set_pos_in # <<>>
    /\ set_pos_out = <<>>
    /\ set_pos_out' = <<set_pos(set_pos_in, set_pos_in.use_pos)>>
    /\ UNCHANGED set_pos_in

PosNext ==
    SetPos /\ UNCHANGED <<thr_vars, det_vars, smear_vars, smp_vars, lik_vars,
                          data_vars, sum_vars, prior_vars, pipe_vars,
                          rebin_vars, sav_vars, load_vars, drv_vars, tab_vars>>

-----------------------------------------------------------------------------
(* convert_dic_to_savable.  A Python value is [type, val]: its exact type  *)
(* and its content; the content of a dict is a function from its keys to   *)
(* values.                                                                 *)

\* type(item) in [list, np.array, np.ndarray, int, str, np.int, np.float,
\*                bool, np.float64]
\* (np.array is a function and the type of nothing; np.int and np.float are
\* the builtin int and float)
is_savable_type(item) ==
    item.type \in {"list", "ndarray", "int", "str", "float", "bool", "float64"}

\* str(item)
str(item) == [type |-> "str", val |-> item]

\* faulty variant: a nested dict is kept as it is
RECURSIVE convert_dic_to_savable_flat(_)
convert_dic_to_savable_flat(config) ==
    [type |-> "dict",
     val |-> [key \in DOMAIN config.val |->
                 IF is_savable_type(config.val[key]) THEN config.val[key]
                 ELSE IF config.val[key].type = "dict" THEN config.val[key]
                 ELSE str(config.val[key])]]

\* convert_dic_to_savable(config)
RECURSIVE convert_dic_to_savable(_)
convert_dic_to_savable(config) ==
    [type |-> "dict",
     val |-> [key \in DOMAIN config.val |->
                 IF is_savable_type(config.val[key]) THEN config.val[key]
                 ELSE IF config.val[key].type = "dict"
                   THEN convert_dic_to_savable(config.val[key])
                 ELSE str(config.val[key])]]

\* values that are not dicts, one of each type
PlainTypes == {"list", "ndarray", "int", "str", "float", "bool", "float64",
               "tuple", "NoneType", "datetime", "int64"}
PlainValues == {[type |-> t, val |-> "x"] : t \in PlainTypes}

\* dict(): the keys of a dict and their values
dict(keys, values) == [type |-> "dict", val |-> [k \in keys |-> values[k]]]

\* the values under a key: plain ones and dicts of at most one key, nested up
\* to depth
RECURSIVE ValuesOfDepth(_)
ValuesOfDepth(depth) ==
    IF depth = 0 THEN PlainValues
    ELSE PlainValues
           \cup {dict({}, <<>>)}
           \cup {dict({1}, <<v>>) : v \in ValuesOfDepth(depth - 1)}

SavInit ==
    /\ \E keys \in SUBSET (1..MaxKeys) :
          \E values \in [keys -> ValuesOfDepth(MaxDepth)] :
              sav_config = dict(keys, values)
    /\ sav_out = <<>>

SavIdle ==
    /\ sav_config = <<>>
    /\ sav_out = <<>>

\* convert_dic_to_savable(config), then again on what it returned
ConvertDicToSavable ==
    /\ sav_config # <<>>
    /\ Len(sav_out) < MaxConvert
    /\ sav_out' = Append(sav_out,
                         convert_dic_to_savable(IF sav_out = <<>> THEN sav_config
                                                ELSE sav_out[Len(sav_out)]))
    /\ UNCHANGED sav_config

SavNext ==
    ConvertDicToSavable
      /\ UNCHANGED <<thr_vars, det_vars, smear_vars, smp_vars, lik_vars,
                     data_vars, sum_vars, prior_vars, pipe_vars, rebin_vars,
                     pos_vars, load_vars, drv_vars, tab_vars>>

-----------------------------------------------------------------------------
(* load_nestle_samples and load_chain_emcee.  A name in a directory is a   *)
(* tuple of its pieces (<<"nestle", "1">> is 'nestle1'), a path the tuple  *)
(* of the names on it.  The file system is [base, elsewhere, files, sub]:  *)
(* whether the result folder and the override folder exist, the listing of *)
(* the result folder and the names in its emcee folder.                    *)

\* get_result_folder()
get_result_folder == <<"results">>

default_nestle_save_dir == "nestle"
default_emcee_save_dir == "emcee"

\* int(s) and str(n) on the item numbers
int(s) == CASE s = "0" -> 0 [] s = "1" -> 1 [] s = "2" -> 2
str_of_int(n) == CASE n = 0 -> "0" [] n = 1 -> "1" [] n = 2 -> "2"

\* os.path.exists(path)
os_path_exists(fs, path) ==
    CASE path = <<"results">> -> fs.base
      [] path = <<"elsewhere">> -> fs.elsewhere
      [] Len(path) = 2 /\ path[1] = "results" ->
            \E i \in 1..Len(fs.files) : fs.files[i] = path[2]
      [] Len(path) = 3 /\ path[1] = "results" ->
            /\ path[2] = <<default_emcee_save_dir>>
            /\ \E i \in 1..Len(fs.files) : fs.files[i] = path[2]
            /\ path[3] \in fs.sub
      [] OTHER -> FALSE

\* os.listdir(path): the listing, or the FileNotFoundError of the system
os_listdir(fs, path) ==
    IF os_path_exists(fs, path)
      THEN [error |-> NoError,
            files |-> IF path = <<"results">> THEN fs.files ELSE <<>>]
      ELSE [error |-> Raised("FileNotFoundError", <<Shown("path", path)>>),
            files |-> <<>>]

\* what a loader leaves behind: the exception that left it, the directory
\* whose result files were read and whether a result was returned
Loaded(error, read_from) ==
    [error |-> error, read_from |-> read_from,
     result |-> error.type = "none"]

\* max(l) of a non-empty set of numbers
max(l) == CHOOSE n \in l : \A k \in l : k <= n

\* load_nestle_samples(load_from, item)
load_nestle_samples(fs, load_from, item) ==
    LET base == get_result_folder
        save == load_from
        listed == os_listdir(fs, base)
        files == listed.files
        numbers == {int(files[i][2]) :
                      i \in {k \in 1..Len(files) : files[k][1] = save}}
        latest == IF item = "latest" THEN str_of_int(max(numbers)) ELSE item
        load_dir == base \o <<(<<save, latest>>)>>
    IN  IF listed.error.type # "none" THEN Loaded(listed.error, <<>>)
        ELSE IF item = "latest" /\ numbers = {}
          THEN Loaded(Raised("ValueError", <<>>), <<>>)
        ELSE IF ~os_path_exists(fs, load_dir)
          THEN Loaded(Raised("FileNotFoundError",
                             <<Shown("load_dir", load_dir),
                               Shown("item", latest)>>), <<>>)
        ELSE Loaded(NoError, load_dir)

\* load_chain_emcee(load_from, override_load_from, item)
load_chain_emcee(fs, load_from, override_load_from, item) ==
    LET base == IF override_load_from # "None" THEN <<override_load_from>>
                ELSE get_result_folder
        save == load_from
        listed == os_listdir(fs, base)
        files == listed.files
        latest == IF item = "latest" THEN files[Len(files)] ELSE <<item>>
        load_dir == IF override_load_from # "None" THEN <<override_load_from>>
                    ELSE base \o <<(<<save>>)>> \o <<latest>>
    IN  IF listed.error.type # "none" THEN Loaded(listed.error, <<>>)
        ELSE IF item = "latest" /\ files = <<>>
          THEN Loaded(Raised("IndexError", <<>>), <<>>)
        ELSE IF ~os_path_exists(fs, load_dir)
          THEN Loaded(Raised("FileNotFoundError",
                             <<Shown("load_dir", load_dir),
                               Shown("item", latest)>>), <<>>)
        ELSE Loaded(NoError, load_dir)

\* the names a result folder may hold
ResultNames == {<<"nestle", "0">>, <<"nestle", "1">>, <<"emcee">>, <<"notes">>}

\* listings of up to n different names, in any order
RECURSIVE ListingsUpTo(_)
ListingsUpTo(n) ==
    IF n = 0 THEN {<<>>}
    ELSE ListingsUpTo(n - 1) \cup
         {Append(l, x) : l \in {k \in ListingsUpTo(n - 1) : Len(k) = n - 1},
                         x \in ResultNames}

Listings ==
    {l \in ListingsUpTo(MaxFiles) :
        \A i, j \in 1..Len(l) : i # j => l[i] # l[j]}

LoadInit ==
    /\ load_fs \in [base : BOOLEAN, elsewhere : BOOLEAN, files : Listings,
                    sub : SUBSET {<<"0">>, <<"1">>}]
    /\ ~load_fs.base => load_fs.files = <<>>
    /\ (\A i \in 1..Len(load_fs.files) : load_fs.files[i] # <<"emcee">>)
          => load_fs.sub = {}
    /\ load_args \in [loader : {"nestle", "emcee"},
                      override_load_from : {"None", "elsewhere"},
                      item : {"latest", "0", "1", "2"}]
    /\ load_args.loader = "nestle" => load_args.override_load_from = "None"
    /\ load_out = <<>>

LoadIdle ==
    /\ load_fs = <<>>
    /\ load_args = <<>>
    /\ load_out = <<>>

\* load_nestle_samples(item=...)
LoadNestleSamples ==
    /\ load_args # <<>> /\ load_out = <<>>
    /\ load_args.loader = "nestle"
    /\ load_out' = <<load_nestle_samples(load_fs, default_nestle_save_dir,
                                         load_args.item)>>
    /\ UNCHANGED <<load_fs, load_args>>

\* load_chain_emcee(override_load_from=..., item=...)
LoadChainEmcee ==
    /\ load_args # <<>> /\ load_out = <<>>
    /\ load_args.loader = "emcee"
    /\ load_out' = <<load_chain_emcee(load_fs, default_emcee_save_dir,
                                      load_args.override_load_from,
                                      load_args.item)>>
    /\ UNCHANGED <<load_fs, load_args>>

LoadNext ==
    \/ LoadNestleSamples
         /\ UNCHANGED <<thr_vars, det_vars, smear_vars, smp_vars, lik_vars,
                        data_vars, sum_vars, prior_vars, pipe_vars, rebin_vars,
                        pos_vars, sav_vars, drv_vars, tab_vars>>
    \/ LoadChainEmcee
         /\ UNCHANGED <<thr_vars, det_vars, smear_vars, smp_vars, lik_vars,
                        data_vars, sum_vars, prior_vars, pipe_vars, rebin_vars,
                        pos_vars, sav_vars, drv_vars, tab_vars>>

-----------------------------------------------------------------------------
(* run_dddm_multinest.py started as nprocs processes with the same        *)
(* arguments.  Each process runs the script from top to bottom; at is the  *)
(* statement it is at.  drv_saved holds the calls of save_results: who     *)
(* called and the directory the results were written to.                   *)

\* line 43-50: the rank of process p (processes are numbered from 1);
\* "unset" when the name rank is never bound
rank_of(args, p) ==
    IF args.sampler = "multinest"
      THEN IF args.mpi4py THEN p - 1     \* MPI.COMM_WORLD.Get_rank()
           ELSE 0                        \* except (ModuleNotFoundError, ImportError)
      ELSE -1

\* stats.get_save_dir(hash=...): the directory of a run, named by the hash
\* when there is one, else by the next free number
get_save_dir(args, saved) ==
    IF args.multicore_hash # "" THEN <<"hash", args.multicore_hash>>
    ELSE <<"number", Cardinality(saved)>>

\* line 93: the condition under which save_results is called
saves(args, rank) ==
    \/ args.multicore_hash = ""
    \/ args.sampler = "multinest" /\ rank = 0

DrvInit ==
    /\ drv_args \in [sampler : {"multinest", "nestle"},
                     multicore_hash : {"", "abc"},
                     shielding : {"default", "yes"},
                     mpi4py : BOOLEAN,
                     nprocs : 1..MaxProcs]
    /\ drv_procs = [p \in 1..drv_args.nprocs |->
                       [at |-> "rank", rank |-> -1, did_run |-> FALSE,
                        error |-> "none"]]
    /\ drv_saved = {}

DrvIdle ==
    /\ drv_args = <<>>
    /\ drv_procs = <<>>
    /\ drv_saved = {}

At(p, at) == p \in DOMAIN drv_procs /\ drv_procs[p].at = at

\* lines 43-51
DetectRank(p) ==
    /\ At(p, "rank")
    /\ drv_procs' = [drv_procs EXCEPT ![p].rank = rank_of(drv_args, p),
                                      ![p].at = "shielding"]
    /\ UNCHANGED <<drv_args, drv_saved>>

\* lines 59-63
SetShielding(p) ==
    /\ At(p, "shielding")
    /\ drv_procs' = IF drv_args.shielding # "default"
                      THEN [drv_procs EXCEPT ![p].at = "run"]
                      ELSE [drv_procs EXCEPT ![p].at = "exit",       \* assert False
                                             ![p].error = "AssertionError"]
    /\ UNCHANGED <<drv_args, drv_saved>>

\* lines 86-92: stats.run_multinest() or stats.run_nestle(); the sampler
\* returns, or raises and ends the process
RunSampler(p) ==
    /\ At(p, "run")
    /\ \E raised \in BOOLEAN :
          drv_procs' = IF raised
                         THEN [drv_procs EXCEPT ![p].at = "exit",
                                                ![p].error = "ValueError"]
                         ELSE [drv_procs EXCEPT ![p].at = "save",
                                                ![p].did_run = TRUE]
    /\ UNCHANGED <<drv_args, drv_saved>>

\* lines 93-94
SaveOrSkip(p) ==
    /\ At(p, "save")
    /\ drv_saved' = IF saves(drv_args, drv_procs[p].rank)
                      THEN drv_saved \cup
                             {[proc |-> p,
                               dir |-> get_save_dir(drv_args, drv_saved)]}
                      ELSE drv_saved
    /\ drv_procs' = [drv_procs EXCEPT ![p].at = "assert"]
    /\ UNCHANGED drv_args

\* line 95 and the end of the script
AssertDidRun(p) ==
    /\ At(p, "assert")
    /\ drv_procs' = IF drv_procs[p].did_run
                      THEN [drv_procs EXCEPT ![p].at = "end"]
                      ELSE [drv_procs EXCEPT ![p].at = "exit",
                                             ![p].error = "AssertionError"]
    /\ UNCHANGED <<drv_args, drv_saved>>

NotDriver ==
    UNCHANGED <<thr_vars, det_vars, smear_vars, smp_vars, lik_vars, data_vars,
                sum_vars, prior_vars, pipe_vars, rebin_vars, pos_vars,
                sav_vars, load_vars, tab_vars>>

DrvNext ==
    \/ \E p \in 1..MaxProcs : DetectRank(p) /\ NotDriver
    \/ \E p \in 1..MaxProcs : SetShielding(p) /\ NotDriver
    \/ \E p \in 1..MaxProcs : RunSampler(p) /\ NotDriver
    \/ \E p \in 1..MaxProcs : SaveOrSkip(p) /\ NotDriver
    \/ \E p \in 1..MaxProcs : AssertDidRun(p) /\ NotDriver

-----------------------------------------------------------------------------
(* The experiment table of detector.py and the detectors built from it.   *)
(* A dict is [keys, val]: its keys in insertion order and their values.  A *)
(* name or a type is the tuple of the pieces its underscores separate      *)
(* (<<"Xe", "migd", "bg">> is 'Xe_migd_bg'), so that name + '_bg' appends  *)
(* the piece "bg" and 'bg' in type asks for that piece.                    *)

\* experiment = {...}: the literal, with the type and the background
\* function of each entry
experiment_literal ==
    [keys |-> << <<"Xe">>, <<"Ge">>, <<"Ar">>,
                 <<"Xe", "migd">>, <<"Ge", "migd">>, <<"Ar", "migd">>,
                 <<"Xe", "migd", "bg">>,
                 <<"Ge", "migd", "iZIP", "Ge", "bg">>,
                 <<"Ge", "migd", "HV", "bg">> >>,
     val |->
        (<<"Xe">> :> [type |-> <<"SI">>]) @@
        (<<"Ge">> :> [type |-> <<"SI">>]) @@
        (<<"Ar">> :> [type |-> <<"SI">>]) @@
        (<<"Xe", "migd">> :>
            [type |-> <<"migdal">>, bg_func |-> "migdal_background_XENON1T"]) @@
        (<<"Ge", "migd">> :>
            [type |-> <<"migdal">>, bg_func |-> "migdal_background_CDMS"]) @@
        (<<"Ar", "migd">> :>
            [type |-> <<"migdal">>, bg_func |-> "migdal_background_Darkside"]) @@
        (<<"Xe", "migd", "bg">> :>
            [type |-> <<"migdal", "bg">>,
             bg_func |-> "migdal_background_XENON1T"]) @@
        (<<"Ge", "migd", "iZIP", "Ge", "bg">> :>
            [type |-> <<"migdal", "bg">>,
             bg_func |-> "migdal_background_CDMS_Ge_iZIP"]) @@
        (<<"Ge", "migd", "HV", "bg">> :>
            [type |-> <<"migdal", "bg">>,
             bg_func |-> "migdal_background_superCDMS_Ge_HV"])]

\* key in d
has_key(d, key) == \E i \in 1..Len(d.keys) : d.keys[i] = key

\* d[key] = value
set_item(d, key, value) ==
    [keys |-> IF has_key(d, key) THEN d.keys ELSE Append(d.keys, key),
     val |-> (key :> value) @@ d.val]

\* lines 307-312: one pass of the loop that sets 'exp_eff' and 'name'
with_exp_eff(table, name) ==
    set_item(table, name,
             ("exp_eff" :> "exp * cut_eff * nr_eff") @@ ("name" :> name)
                 @@ table.val[name])

\* lines 317-321: one pass of the loop that copies an entry for background
with_bg_copy(table, name) ==
    LET bg_name == Append(name, "bg")
    IN  IF ~has_key(table, bg_name)
          THEN set_item(table, bg_name,
                        ("type" :> Append(table.val[name].type, "bg"))
                            @@ table.val[name])
          ELSE table

\* 'bg' in type
contains_bg(type) == \E i \in 1..Len(type) : type[i] = "bg"

\* DetectorSpectrum.__init__ on an entry of the table
DetectorSpectrum(entry) ==
    [experiment |-> entry,
     add_background |-> contains_bg(entry.type),
     spectrum |-> "none"]

\* DetectorSpectrum.compute_detected_spectrum, lines 409-418: the lookup of
\* the background function
detected_spectrum(self) ==
    IF self.add_background
      THEN IF "bg_func" \in DOMAIN self.experiment
             THEN [self EXCEPT !.spectrum = "signal + background"]
             ELSE [self EXCEPT !.spectrum = "KeyError"]
      ELSE [self EXCEPT !.spectrum = "signal"]

TabInit ==
    /\ experiment = experiment_literal
    /\ build_pc = [at |-> "exp_eff", todo |-> experiment_literal.keys]
    /\ detectors = {}

TabIdle ==
    /\ experiment = <<>>
    /\ build_pc = <<>>
    /\ detectors = {}

\* for name in experiment.keys(): ... (lines 307-312), one pass; after the
\* last pass exp_names is listed for the second loop (lines 315-316)
SetExpEff ==
    /\ build_pc # <<>> /\ build_pc.at = "exp_eff"
    /\ build_pc.todo # <<>>
    /\ experiment' = with_exp_eff(experiment, Head(build_pc.todo))
    /\ build_pc' = IF Tail(build_pc.todo) # <<>>
                     THEN [build_pc EXCEPT !.todo = Tail(build_pc.todo)]
                     ELSE [at |-> "copy", todo |-> experiment'.keys]
    /\ UNCHANGED detectors

\* for name in list(exp_names): ... (lines 316-321), one pass
CopyWithBg ==
    /\ build_pc # <<>> /\ build_pc.at = "copy"
    /\ build_pc.todo # <<>>
    /\ experiment' = with_bg_copy(experiment, Head(build_pc.todo))
    /\ build_pc' = IF Tail(build_pc.todo) # <<>>
                     THEN [build_pc EXCEPT !.todo = Tail(build_pc.todo)]
                     ELSE [at |-> "done", todo |-> <<>>]
    /\ UNCHANGED detectors

\* DetectorSpectrum(experiment[name], ...) once the module is imported
NewDetector ==
    /\ build_pc # <<>> /\ build_pc.at = "done"
    /\ Cardinality(detectors) < MaxDetectors
    /\ \E i \in 1..Len(experiment.keys) :
          detectors' = detectors \cup
                         {DetectorSpectrum(experiment.val[experiment.keys[i]])}
    /\ UNCHANGED <<experiment, build_pc>>

\* detector.compute_detected_spectrum()
ComputeSpectrum ==
    /\ \E d \in detectors :
          /\ d.spectrum = "none"
          /\ detectors' = (detectors \ {d}) \cup {detected_spectrum(d)}
    /\ UNCHANGED <<experiment, build_pc>>

NotTable ==
    UNCHANGED <<thr_vars, det_vars, smear_vars, smp_vars, lik_vars, data_vars,
                sum_vars, prior_vars, pipe_vars, rebin_vars, pos_vars,
                sav_vars, load_vars, drv_vars>>

TabNext ==
    \/ SetExpEff /\ NotTable
    \/ CopyWithBg /\ NotTable
    \/ NewDetector /\ NotTable
    \/ ComputeSpectrum /\ NotTable

-----------------------------------------------------------------------------
(* One specification per component; the others stay as built.              *)
RestIdle == DataIdle /\ SumIdle /\ PriorIdle /\ PipeIdle /\ RebinIdle
CoreIdle == ThrIdle /\ DetIdle /\ SmearIdle /\ SmpIdle /\ LikIdle
MoreIdle == PosIdle /\ SavIdle /\ LoadIdle /\ DrvIdle /\ TabIdle

InitThreshold == ThrInit /\ DetIdle /\ SmearIdle /\ SmpIdle /\ LikIdle /\ RestIdle
    /\ MoreIdle
InitDetector == ThrIdle /\ DetInit /\ SmearIdle /\ SmpIdle /\ LikIdle /\ RestIdle
    /\ MoreIdle
InitSmear == ThrIdle /\ DetIdle /\ SmearInit /\ SmpIdle /\ LikIdle /\ RestIdle
    /\ MoreIdle
InitSampler == ThrIdle /\ DetIdle /\ SmearIdle /\ SmpInit /\ LikIdle /\ RestIdle
    /\ MoreIdle
InitLikelihood == ThrIdle /\ DetIdle /\ SmearIdle /\ SmpIdle /\ LikInit /\ RestIdle
    /\ MoreIdle
InitData ==
    CoreIdle /\ DataInit /\ SumIdle /\ PriorIdle /\ PipeIdle /\ RebinIdle
    /\ MoreIdle
InitSummary ==
    CoreIdle /\ DataIdle /\ SumInit /\ PriorIdle /\ PipeIdle /\ RebinIdle
    /\ MoreIdle
InitPrior ==
    CoreIdle /\ DataIdle /\ SumIdle /\ PriorInit /\ PipeIdle /\ RebinIdle
    /\ MoreIdle
InitPipeline ==
    CoreIdle /\ DataIdle /\ SumIdle /\ PriorIdle /\ PipeInit /\ RebinIdle
    /\ MoreIdle
InitRebin ==
    CoreIdle /\ DataIdle /\ SumIdle /\ PriorIdle /\ PipeIdle /\ RebinInit
    /\ MoreIdle
InitSetPos ==
    CoreIdle /\ RestIdle /\ PosInit /\ SavIdle /\ LoadIdle /\ DrvIdle /\ TabIdle
InitThresholdAny ==
    ThrInitAny /\ DetIdle /\ SmearIdle /\ SmpIdle /\ LikIdle /\ RestIdle /\ MoreIdle
InitSavable ==
    CoreIdle /\ RestIdle /\ PosIdle /\ SavInit /\ LoadIdle /\ DrvIdle /\ TabIdle
InitLoad ==
    CoreIdle /\ RestIdle /\ PosIdle /\ SavIdle /\ LoadInit /\ DrvIdle /\ TabIdle
InitDriver ==
    CoreIdle /\ RestIdle /\ PosIdle /\ SavIdle /\ LoadIdle /\ DrvInit /\ TabIdle
InitTable ==
    CoreIdle /\ RestIdle /\ PosIdle /\ SavIdle /\ LoadIdle /\ DrvIdle /\ TabInit

SpecThreshold == InitThreshold /\ [][ThrNext]_vars
SpecDetector == InitDetector /\ [][DetNext]_vars
SpecSmear == InitSmear /\ [][SmearNext]_vars
SpecSampler == InitSampler /\ [][SmpNext]_vars
SpecConfig == InitSampler /\ [][ConfigNext]_vars
SpecLikelihood == InitLikelihood /\ [][LikNext]_vars
SpecData == InitData /\ [][DataNext]_vars
SpecSummary == InitSummary /\ [][SumNext]_vars
SpecPrior == InitPrior /\ [][PriorNext]_vars
SpecPipeline == InitPipeline /\ [][PipeNext]_vars
SpecRebin == InitRebin /\ [][RebinNext]_vars
SpecSetPos == InitSetPos /\ [][PosNext]_vars
SpecThresholdAny == InitThresholdAny /\ [][ThrNext]_vars
SpecSavable == InitSavable /\ [][SavNext]_vars
SpecLoad == InitLoad /\ [][LoadNext]_vars
SpecDriver == InitDriver /\ [][DrvNext]_vars
SpecTable == InitTable /\ [][TabNext]_vars

-----------------------------------------------------------------------------
(* Claims about the threshold cut, checked under SpecThreshold.            *)

Left(i) == e_bin_edges[i][1]
Right(i) == e_bin_edges[i][2]
Bins == 1..Len(e_bin_edges)
FractionAbove(i) == Rat(Right(i) - e_thr, Right(i) - Left(i))
Straddles(i) == Left(i) < e_thr /\ e_thr < Right(i)
CutOnce == thr_impl = "dddm" /\ Len(thr_hist) >= 1

\* C1: after one above_threshold(rates, bin_edges, T) on bins sorted in
\* increasing energy with L < R, a bin with L >= T keeps its rate, a bin with
\* R <= T is 0, and a bin with L < T < R holds rate * (R - T) / (R - L).
C1_ThresholdPerBin ==
    CutOnce =>
        \A i \in Bins :
            /\ Left(i) >= e_thr => thr_hist[1][i] = rates_in[i]
            /\ Right(i) <= e_thr => thr_hist[1][i] = Zero
            /\ Straddles(i) =>
                  thr_hist[1][i] = RatMul(rates_in[i], FractionAbove(i))

\* a cut that zeroed one bin, scaled a second and kept a third
C1_Witness ==
    /\ CutOnce
    /\ \E i, j, k \in Bins :
          /\ Right(i) <= e_thr /\ rates_in[i] # Zero /\ thr_hist[1][i] = Zero
          /\ Straddles(j) /\ rates_in[j] # Zero
          /\ thr_hist[1][j] # rates_in[j] /\ thr_hist[1][j] # Zero
          /\ Left(k) >= e_thr /\ rates_in[k] # Zero
          /\ thr_hist[1][k] = rates_in[k]

\* C2 as stated: applying above_threshold twice with the same edges and
\* threshold gives the same rates as applying it once, for every rate array,
\* bin edges and threshold.
C2_Idempotent ==
    Len(thr_hist) >= 2 => thr_hist[2] = thr_hist[1]

\* C2 amended: the second application leaves every bin as the first left it,
\* except that the fractional cut scales a bin with L < T < R by
\* (R - T) / (R - L) once more; the hard cut of the older class is idempotent.
C2_IdempotentOffStraddle ==
    Len(thr_hist) >= 2 =>
        \A i \in Bins :
            IF thr_impl = "dddm" /\ Straddles(i)
              THEN thr_hist[2][i] = RatMul(thr_hist[1][i], FractionAbove(i))
              ELSE thr_hist[2][i] = thr_hist[1][i]

\* two fractional cuts with the threshold strictly inside a bin of non-zero
\* rate and with a zeroed bin below it
C2_Witness ==
    /\ thr_impl = "dddm"
    /\ Len(thr_hist) >= 2
    /\ \E i, j \in Bins :
          /\ Straddles(i) /\ rates_in[i] # Zero
          /\ thr_hist[2][i] # thr_hist[1][i]
          /\ Right(j) <= e_thr /\ rates_in[j] # Zero
          /\ thr_hist[2][j] = Zero

\* C3: with the threshold exactly at the right edge of bin k, bin k and every
\* lower-energy bin become 0 and every higher-energy bin is unchanged.
C3_ThresholdAtRightEdge ==
    CutOnce =>
        \A k \in Bins :
            Right(k) = e_thr =>
                \A i \in Bins :
                    /\ i <= k => thr_hist[1][i] = Zero
                    /\ i > k => thr_hist[1][i] = rates_in[i]

\* the threshold at the right edge of bin k, bin k+1 starting there, with
\* non-zero rates on both sides
C3_Witness ==
    /\ CutOnce
    /\ \E k \in Bins :
          /\ k > 1 /\ k + 1 \in Bins
          /\ Right(k) = e_thr /\ Left(k + 1) = e_thr
          /\ \A i \in Bins : rates_in[i] # Zero
          /\ thr_hist[1][k] = Zero /\ thr_hist[1][k - 1] = Zero
          /\ thr_hist[1][k + 1] = rates_in[k + 1]

-----------------------------------------------------------------------------
(* Claims about the detector convolution, checked under SpecDetector and    *)
(* SpecSmear.                                                               *)

\* C4: however often compute_detected_spectrum or _calculate_counts has been
\* called on one instance with the same inputs, every call returned the same
\* number of output bins and n_bins is what it was before the calls.
C4_StatelessPerCall ==
    /\ n_bins = n_bins_built
    /\ \A i, j \in 1..Len(out_lens) : out_lens[i] = out_lens[j]

\* C5: if any sigma[j] is smaller than the bin width, smear_signal returns the
\* input rate unchanged without running the convolution and emits a warning;
\* otherwise it returns the smeared rate and emits no warning.
C5_SmearGuard ==
    smear_out # <<>> =>
        IF \E j \in 1..Len(smear_sigma) : smear_sigma[j] < smear_width[j]
          THEN /\ ~smear_out[1].convolved
               /\ smear_out[1].rate = smear_rate
               /\ Len(warnings_log) = 1
          ELSE /\ smear_out[1].convolved
               /\ warnings_log = <<>>

-----------------------------------------------------------------------------
(* Claims about the sampler adapters, checked under SpecConfig, SpecSampler *)
(* and SpecLikelihood.                                                      *)

InOrder(params) == params = Slice(known_parameters, Len(params))
ConfigurationErrors == {"TypeError", "NotImplementedError", "NameError"}
NestleAccessors == {"get_summary", "save_results", "show_corner"}
Accessors == NestleAccessors \cup {"show_walkers"}

\* C6: a step of set_fit_parameters(params) raises a configuration error and
\* leaves fit_parameters as it was whenever params is not the prefix of the
\* canonical parameter list of the same length; otherwise it returns and
\* fit_parameters is params.
C6_SetFitParametersPrefix ==
    [][last_call'.name = "set_fit_parameters" =>
          IF last_call'.arg.is_list /\ InOrder(last_call'.arg.items)
            THEN /\ last_call'.error.type = "none"
                 /\ stats'.fit_parameters = last_call'.arg.items
            ELSE /\ last_call'.error.type \in ConfigurationErrors
                 /\ stats'.fit_parameters = stats.fit_parameters]_vars

\* set_fit_parameters(['log_cross_section']) raised and the default
\* configuration is still in place
C6_Witness ==
    /\ last_call.name = "set_fit_parameters"
    /\ last_call.arg = [is_list |-> TRUE, items |-> <<"log_cross_section">>]
    /\ last_call.error.type = "NameError"
    /\ stats.fit_parameters = <<"log_mass", "log_cross_section">>

C8_NoRerunAfterCompletion ==
    \A inv \in engine_log : inv.entry \in Accessors => ~inv.did_run

\* a completed run_nestle / run_emcee followed by an accessor that returned,
\* the engine having been invoked once only
C8_Witness ==
    /\ stats.did_run
    /\ last_call.name \in Accessors
    /\ last_call.error.type = "none"
    /\ engine_calls = 1
    /\ \A inv \in engine_log : inv.entry \in {"run_nestle", "run_emcee"}

\* C9: after the engine raised during a run, no later get_summary,
\* save_results or show_corner on the instance starts the engine again.
C9_FailedRunTerminal ==
    \A inv \in engine_log : inv.entry \in NestleAccessors => ~inv.failed

\* C10: when the log-likelihood of a candidate is NaN, log_probability_nestle
\* raises, and the error it raises shows the candidate parameter vector.
C10_NaNNamesVector ==
    \A i \in 1..Len(last_eval) :
        IsNaN(last_eval[i].ll) =>
            /\ last_eval[i].error.type # "none"
            /\ \E k \in 1..Len(last_eval[i].error.shows) :
                  /\ last_eval[i].error.shows[k].name = "parameter_vals"
                  /\ last_eval[i].error.shows[k].value = last_eval[i].theta


-----------------------------------------------------------------------------
(* Claims about a failing engine, checked under SpecSampler.               *)

\* the exception shows the number of fit parameters and the number of
\* walkers or live points
ShowsFitContext(error) ==
    /\ \E k \in 1..Len(error.shows) : error.shows[k].name = "ndim"
    /\ \E k \in 1..Len(error.shows) : error.shows[k].name \in {"nwalkers", "nlive"}

\* C11: when run_nestle or run_emcee ends with the ValueError of the engine,
\* the engine was invoked exactly once by that call (no retry) and the
\* exception that reaches the caller shows the number of fit parameters and
\* the number of walkers or live points.
C11_EngineErrorContext ==
    [][(/\ last_call'.name \in {"run_nestle", "run_emcee"}
        /\ last_call'.error.type = "ValueError")
       => /\ engine_calls' = engine_calls + 1
          /\ ShowsFitContext(last_call'.error)]_vars

-----------------------------------------------------------------------------
(* Claims about get_data, checked under SpecData.                          *)

\* C12: np.random.poisson is never called with a negative mean, and the
\* counts get_data returns, with or without the Poisson draw, are never
\* negative.
C12_ClampBeforePoisson ==
    /\ \A k \in 1..Len(poisson_means) :
          \A i \in 1..Len(poisson_means[k]) : poisson_means[k][i] >= 0
    /\ data_out # <<>> /\ data_out[1].error = "none"
          => \A i \in 1..Len(data_out[1].counts) : data_out[1].counts[i] >= 0


-----------------------------------------------------------------------------
(* Claims about get_summary, checked under SpecSummary.                    *)

\* the draws that survive the rejection resampling, in order
RECURSIVE KeptUpTo(_)
KeptUpTo(n) ==
    IF n = 0 THEN <<>>
    ELSE IF n \in summary_out[1].keepidx
      THEN Append(KeptUpTo(n - 1), result_samples[n])
      ELSE KeptUpTo(n - 1)
Kept == KeptUpTo(Len(result_samples))

\* np.mean and np.cov (one parameter) of unweighted draws
UnweightedMean(xs) ==
    RatDiv(RatSum([i \in 1..Len(xs) |-> FromInt(xs[i])], Len(xs)),
           FromInt(Len(xs)))
UnweightedCov(xs) ==
    LET mu == UnweightedMean(xs)
        dx == [i \in 1..Len(xs) |-> RatSub(FromInt(xs[i]), mu)]
    IN  RatDiv(RatSum([i \in 1..Len(xs) |-> RatMul(dx[i], dx[i])], Len(xs)),
               FromInt(Len(xs) - 1))

\* C13: the mean and the covariance get_summary reports are those of the
\* unweighted draws that survive the rejection resampling (sample i kept
\* when its uniform draw is below weight[i] / max(weight)).
C13_SummaryFromResampled ==
    summary_out # <<>> /\ Len(Kept) >= 2
        => /\ summary_out[1].p = UnweightedMean(Kept)
           /\ summary_out[1].cov = UnweightedCov(Kept)

-----------------------------------------------------------------------------
(* Claims about the prior transform, checked under SpecPrior.              *)

PriorCalled(t) == prior_out # <<>> /\ prior.prior_type = t
\* x * (b - a) + a in exact arithmetic
Linear(x, a, b) == RatAdd(RatMul(x, RatSub(b, a)), a)
Representable(v) == fl(v) = v

\* C14: for a flat prior on [a, b] the transform returns exactly
\* x * (b - a) + a: a for x = 0, b for x = 1, (a + b) / 2 for x = 1/2.
C14_FlatLinear ==
    PriorCalled("flat") =>
        /\ prior_out[1].error = NoError
        /\ prior_out[1].value = Finite(Linear(x_in, prior.param[1], prior.param[2]))

\* C14, as it holds in floating point: a flat prior on [a, b] returns
\* exactly a for x = 0, and exactly x * (b - a) + a whenever b - a,
\* x * (b - a) and x * (b - a) + a are floating point numbers.
C14_FlatLinearWhenRepresentable ==
    PriorCalled("flat") =>
        LET a == prior.param[1]
            b == prior.param[2]
        IN  /\ prior_out[1].error = NoError
            /\ x_in = Zero => prior_out[1].value = Finite(a)
            /\ (/\ Representable(RatSub(b, a))
                /\ Representable(RatMul(x_in, RatSub(b, a)))
                /\ Representable(Linear(x_in, a, b)))
               => prior_out[1].value = Finite(Linear(x_in, a, b))

C14_Witness ==
    /\ PriorCalled("flat")
    /\ x_in = FromInt(1)
    /\ prior.param = <<FromInt(-2), FromInt(6)>>
    /\ prior_out[1].value = Finite(FromInt(6))

\* v <= w for values that may be infinite
ValueLeq(v, w) ==
    \/ v.inf = -1
    \/ w.inf = 1
    \/ v.inf = 0 /\ w.inf = 0 /\ ~RatLess(w.val, v.val)

\* C15: for a Gaussian prior with range [a, b], a < b, and s > 0 the
\* transform of every x in [0, 1] lies in [a, b], and it does not decrease
\* when x grows.
C15_GaussWithinRange ==
    PriorCalled("gauss") =>
        /\ prior_out[1].error = NoError
        /\ ValueLeq(Finite(prior.range[1]), prior_out[1].value)
        /\ ValueLeq(prior_out[1].value, Finite(prior.range[2]))
        /\ \A x2 \in UnitValues :
              RatLess(x_in, x2)
                => ValueLeq(prior_out[1].value,
                            log_prior_transform_nestle(x2, prior).value)

\* C16: a prior whose type is neither 'flat' nor 'gauss' makes the transform
\* raise TypeError, whatever x is; no value is returned.
C16_UnknownPriorRaises ==
    prior_out # <<>> /\ prior.prior_type \notin {"flat", "gauss"}
        => prior_out[1].error.type = "TypeError"

C16_Witness ==
    /\ PriorCalled("uniform")
    /\ prior_out[1].error.type = "TypeError"
    /\ x_in = Rat(1, 2)

-----------------------------------------------------------------------------
(* Claims about the order of the pipeline, checked under SpecPipeline.     *)

\* position of the step called name in the steps run (0: not run)
RECURSIVE PositionFrom(_, _)
PositionFrom(name, k) ==
    IF k > Len(pipe_steps) THEN 0
    ELSE IF pipe_steps[k].step = name THEN k
    ELSE PositionFrom(name, k + 1)
Position(name) == PositionFrom(name, 1)

Went(history, name) == \E i \in 1..Len(history) : history[i] = name

\* C18: the pipeline runs background addition, then smearing, then the
\* threshold cut, then the exposure scaling, and the threshold cut is given
\* the smeared rate, never the rate before smearing.
C18_PipelineOrder ==
    pipe_steps # <<>> =>
        /\ Position("background") > 0
              => Position("background") < Position("smear_signal")
        /\ Position("smear_signal") > 0
        /\ Position("smear_signal") < Position("above_threshold")
        /\ Position("above_threshold") < Position("exposure")
        /\ \A k \in 1..Len(pipe_steps) :
              pipe_steps[k].step = "above_threshold"
                => Went(pipe_steps[k].input, "smear_signal")

-----------------------------------------------------------------------------
(* The early exit of the threshold scan, checked under SpecThreshold.      *)

\* what a scan that looks at every bin does with bin i
ScannedBin(rs, i) ==
    IF Left(i) >= e_thr THEN rs[i]
    ELSE IF Right(i) <= e_thr THEN Zero
    ELSE RatMul(rs[i], FractionAbove(i))

FullScan(rs) == [i \in 1..Len(rs) |-> ScannedBin(rs, i)]

\* C19: for bins sorted in increasing energy the scan that stops at the
\* first bin with left edge >= T returns what a scan of every bin returns:
\* no bin after the stop would have been zeroed or scaled.
C19_BreakEquivalentToFullScan ==
    CutOnce => thr_hist[1] = FullScan(rates_in)

\* the scan stopped with more than one bin left, after changing a bin
C19_Witness ==
    /\ CutOnce
    /\ \E i \in Bins : /\ Left(i) >= e_thr
                       /\ i < Len(e_bin_edges)
                       /\ i > 1
                       /\ thr_hist[1][i - 1] # rates_in[i - 1]
                       /\ rates_in[i + 1] # Zero
                       /\ thr_hist[1][i + 1] = rates_in[i + 1]

-----------------------------------------------------------------------------
(* Claims about the re-binning, checked under SpecRebin.                   *)

Factor == Len(fine_rates) \div Len(result_bins)
FineWidth == fine_energies[2] - fine_energies[1]
FineBinsOf(i) == ((i - 1) * Factor + 1)..(i * Factor)

RECURSIVE SumOver(_)
\* the sum of the fine rates with index in S
SumOver(S) ==
    IF S = {} THEN 0
    ELSE LET j == CHOOSE k \in S : TRUE
         IN  fine_rates[j] + SumOver(S \ {j})

\* C20: on an output grid aligned with the fine grid (integer factor >= 2)
\* every fine bin is counted in exactly one output bin, and each output
\* value is the sum of the rates of its fine bins times the fine bin width.
C20_RebinAligned ==
    rebin_out # <<>> /\ Factor >= 2 =>
        /\ \A j \in 1..Len(fine_rates) :
              Cardinality({i \in 1..Len(rebin_out) : j \in rebin_out[i].mask}) = 1
        /\ \A i \in 1..Len(rebin_out) :
              /\ rebin_out[i].mask = FineBinsOf(i)
              /\ rebin_out[i].res =
                    [nan |-> FALSE,
                     val |-> FromInt(SumOver(FineBinsOf(i)) * FineWidth)]

C20_Witness ==
    /\ rebin_out # <<>>
    /\ Factor = 2
    /\ Len(result_bins) = 2
    /\ fine_rates = <<1, 2, 0, 1>>
    /\ rebin_out[1].res.val = FromInt(3 * FineWidth)
    /\ rebin_out[2].res.val = FromInt(FineWidth)

-----------------------------------------------------------------------------
(* Claims about the start positions, checked under SpecSetPos.             *)

PosDefault == set_pos_out # <<>> /\ set_pos_in.use_pos = "None"

\* C21: after _set_pos() without a position of the caller, self.pos has
\* nwalkers rows and one column per fit parameter, and the coordinate of
\* every walker for parameter k lies in the prior range [a, b] of that
\* parameter.
C21_StartInsidePrior ==
    PosDefault =>
        LET pos == set_pos_out[1]
            fit == set_pos_in.fit_parameters
        IN  /\ Len(pos) = set_pos_in.nwalkers
            /\ \A w \in 1..Len(pos) :
                  /\ Len(pos[w]) = Len(fit)
                  /\ \A k \in 1..Len(fit) :
                        /\ ~RatLess(pos[w][k], set_pos_in.prior[fit[k]][1])
                        /\ ~RatLess(set_pos_in.prior[fit[k]][2], pos[w][k])

\* two walkers, two parameters, one coordinate clipped at each end
C21_Witness ==
    /\ PosDefault
    /\ set_pos_in.nwalkers = 2
    /\ Len(set_pos_in.fit_parameters) = 2
    /\ set_pos_in.prior["log_mass"] = <<FromInt(1), FromInt(3)>>
    /\ set_pos_out[1][1][1] = FromInt(1)
    /\ set_pos_out[1][2][1] = FromInt(3)

-----------------------------------------------------------------------------
(* Claims about the run flag and the callbacks, checked under SpecSampler. *)

\* C25: on a NestleStatModel, did_run true means that result holds the output
\* of the sampler (it is not False); did_run becomes true only in a call
\* whose engine invocation returned without error, and never becomes false
\* again.
C25_DidRunMeansResult ==
    /\ [](stats.kind = "nestle" /\ stats.did_run => stats.result # <<>>)
    /\ [][stats.kind = "nestle" =>
            /\ stats.did_run => stats'.did_run
            /\ ~stats.did_run /\ stats'.did_run =>
                  /\ last_call'.error.type = "none"
                  /\ engine_calls' = engine_calls + 1
                  /\ \E inv \in engine_log' \ engine_log : ~inv.raised]_vars

\* a run that the engine left with an error, then a run_nestle that
\* completed: did_run is true and the result is there
C25_Witness ==
    /\ stats.kind = "nestle"
    /\ stats.did_run
    /\ stats.result # <<>>
    /\ last_call.name = "run_nestle"
    /\ \E inv \in engine_log : inv.raised

\* C26: in every likelihood and prior-transform call the engine makes during
\* run_nestle, the names paired with the candidate vector are the instance's
\* fit_parameters, in the same order.
C26_NamesAreFitParameters ==
    stats.kind = "nestle" => \A inv \in engine_log : inv.paired

\* run_nestle completed with one fit parameter set by set_fit_parameters
C26_Witness ==
    /\ stats.kind = "nestle"
    /\ stats.fit_parameters = <<"log_mass">>
    /\ stats.did_run
    /\ \E inv \in engine_log : inv.entry = "run_nestle" /\ inv.paired

-----------------------------------------------------------------------------
(* Claims about bins of any shape, checked under SpecThresholdAny.         *)

\* C28: above_threshold never raises its ValueError ('How did this happen?'),
\* whatever numbers the edges and the threshold are: also for empty,
\* reversed, overlapping or unsorted bins.
C28_RaiseUnreachable == thr_error = "none"

\* the cut went over a reversed bin that lies below the threshold and over
\* an empty bin the threshold touches
C28_Witness ==
    /\ thr_impl = "dddm"
    /\ Len(thr_hist) > 0
    /\ Len(e_bin_edges) = 2
    /\ e_bin_edges[1][1] > e_bin_edges[1][2]
    /\ e_bin_edges[1][1] < e_thr
    /\ e_bin_edges[2][1] = e_bin_edges[2][2]
    /\ e_bin_edges[2][2] = e_thr
    /\ rates[1] = Zero

-----------------------------------------------------------------------------
(* Claims about the rejection resampling, checked under SpecSummary.       *)

\* the samples whose weight is the largest one
HeaviestSamples ==
    {i \in 1..Len(result_weights) :
        result_weights[i] = MaxOf(result_weights, Len(result_weights))}

\* C29: in the rejection resampling of get_summary every sample whose weight
\* is the maximum weight is kept, whatever the uniform draws (all below 1)
\* are, so that the resampled set is not empty and nestle_nposterior >= 1.
C29_HeaviestKept ==
    summary_out # <<>> =>
        /\ HeaviestSamples \subseteq summary_out[1].keepidx
        /\ summary_out[1].nestle_nposterior >= 1

\* every draw is 9/10: the lighter sample is rejected, the heaviest one kept
C29_Witness ==
    /\ summary_out # <<>>
    /\ result_weights = <<1, 2>>
    /\ rand_draws = <<Rat(9, 10), Rat(9, 10)>>
    /\ summary_out[1].keepidx = {2}

-----------------------------------------------------------------------------
(* Claims about the saved configuration, checked under SpecSavable.        *)

\* a number, a string, a boolean or a sequence
Primitive(v) ==
    v.type \in {"int", "float", "float64", "int64", "str", "bool",
                "list", "ndarray", "tuple"}

\* out is what the rule makes of the dict in: the same keys, a value that is
\* neither primitive nor a dict replaced by its string form, a dict treated
\* by the same rule, and nothing but primitive values and such dicts in out
RECURSIVE Savable(_, _)
Savable(in, out) ==
    /\ out.type = "dict"
    /\ DOMAIN out.val = DOMAIN in.val
    /\ \A key \in DOMAIN in.val :
          LET a == in.val[key]
              b == out.val[key]
          IN  IF a.type = "dict" THEN Savable(a, b)
              ELSE /\ Primitive(b)
                   /\ ~Primitive(a) => b = str(a)

\* C22: convert_dic_to_savable returns a mapping with the keys of its input
\* in which every value is a number, a string, a boolean, a sequence or a
\* mapping converted by the same rule, every other value being replaced by
\* its string form, at every nesting depth; applied to its own output it
\* changes nothing.
C22_SavableAndIdempotent ==
    /\ Len(sav_out) >= 1 => Savable(sav_config, sav_out[1])
    /\ \A i \in 2..Len(sav_out) : sav_out[i] = sav_out[i - 1]

\* a datetime two dicts below a key was replaced by its string form, and the
\* conversion was applied again
C22_Witness ==
    /\ Len(sav_out) = 2
    /\ 1 \in DOMAIN sav_config.val
    /\ sav_config.val[1] =
          dict({1}, <<dict({1}, <<[type |-> "datetime", val |-> "x"]>>)>>)
    /\ sav_out[1].val[1].val[1].val[1].type = "str"

-----------------------------------------------------------------------------
(* Claims about reloading, checked under SpecLoad.                         *)

\* the save directory the call asks for is not there: with a number, no
\* directory of that number; with 'latest', no saved run at all
SaveDirMissing ==
    IF load_args.loader = "nestle"
      THEN \A i \in 1..Len(load_fs.files) :
              load_fs.files[i][1] = "nestle"
                => /\ load_args.item # "latest"
                   /\ load_fs.files[i][2] # load_args.item
      ELSE IF load_args.override_load_from # "None" THEN ~load_fs.elsewhere
      ELSE IF load_args.item = "latest" THEN load_fs.sub = {}
      ELSE <<load_args.item>> \notin load_fs.sub

\* C23: reloading from a save directory that does not exist raises
\* FileNotFoundError showing the path that was tried, before any result file
\* is read, and returns no result.
C23_MissingDirReported ==
    load_out # <<>> /\ SaveDirMissing =>
        /\ load_out[1].error.type = "FileNotFoundError"
        /\ load_out[1].error.shows # <<>>
        /\ load_out[1].read_from = <<>>
        /\ ~load_out[1].result

-----------------------------------------------------------------------------
(* Claims about the driver, checked under SpecDriver.                      *)

\* the processes that called save_results
Savers == {call.proc : call \in drv_saved}

\* C24: when the driver runs as several processes that share one non-empty
\* multicore hash, no two processes call save_results (no two write the
\* same result directory), exactly one has called it once all of them are
\* at the end of a multinest run, and every process at the end of the script
\* has did_run true.
C24_OneWriter ==
    /\ drv_args.nprocs > 1 /\ drv_args.multicore_hash # "" =>
          /\ Cardinality(Savers) <= 1
          /\ (/\ drv_args.sampler = "multinest"
              /\ \A p \in DOMAIN drv_procs : drv_procs[p].at = "end")
                => Cardinality(Savers) = 1
    /\ \A p \in DOMAIN drv_procs :
          drv_procs[p].at = "end" => drv_procs[p].did_run

-----------------------------------------------------------------------------
(* Claims about the experiment table, checked under SpecTable.             *)

\* C27: once the table is built, every entry whose type contains 'bg' has a
\* 'bg_func', and no compute_detected_spectrum of a detector built from the
\* table fails on a missing background function.
C27_BackgroundFunctionPresent ==
    /\ build_pc.at = "done" =>
          \A i \in 1..Len(experiment.keys) :
              LET entry == experiment.val[experiment.keys[i]]
              IN  contains_bg(entry.type) => "bg_func" \in DOMAIN entry
    /\ \A d \in detectors : d.spectrum # "KeyError"
============================================================================
